---- MODULE Spec2Model ----
(***************************************************************************)
(* check.tls.support: an HTTPS endpoint that terminates TLS with an        *)
(* instrumented handshake, keeps what the ClientHello offered and what the *)
(* record layer saw, and classifies it into a report with a rating.        *)
(*                                                                         *)
(* One connection is modelled from the ClientHello in flight to the        *)
(* response: readClientHello (version and suite negotiation, BEAST probe   *)
(* arming), the record layer's readRecord (the probe), ConnectionState     *)
(* (the snapshot) and pullClientInfo (the classifier).  The conn adapter's *)
(* lazy handshake is modelled for goroutines that share one connection.    *)
(*                                                                         *)
(* Go strings are kept as TLA+ strings; Bytes gives the characters of the  *)
(* names so that strings.Contains is computed on them.                     *)
(***************************************************************************)
EXTENDS Integers, Sequences, FiniteSets, TLC

VARIABLES
    certKind,      \* key type of the serving certificate: "RSA" or "ECDSA"
    hello,         \* the ClientHello the client sends (clientHelloMsg)
    wire,          \* records the client has yet to send after the handshake
    received,      \* records the server has read after the handshake, in order
    c,             \* the tls.Conn fields the instrumentation reads and writes
    pc,            \* where the connection is: unmarshal, start, established, responded,
                   \* closed
    d,             \* the clientInfo written in the response, or NoReport
    ext,           \* bodies of the supported_versions extensions still to be parsed
    callers,       \* goroutines calling conn.Read or conn.Write, then conn.TLSData
    conn_st,       \* conn.st, the stored handshake state, and how often it was set
    handshakeMutex,\* conn.handshakeMutex: the caller that holds it, or 0
    tlsConn,       \* the handshake fields of the embedded tls.Conn
    sock,          \* the underlying socket: closed or not, I/O calls made on it
    liveHijackCount,\* the process-wide count of hijacked connections being served
    handlers,      \* the connections of the listener: each one's position, the
                   \* values its handler holds, and what was done on its socket
    main,          \* the goroutine of main: its position, and whether the deadline
                   \* of its shutdown context has passed
    srv            \* the HTTPS and the HTTP server: serving, draining or shut down

connVars == <<certKind, hello, wire, received, c, pc, d, ext>>
adapterVars == <<callers, conn_st, handshakeMutex, tlsConn, sock>>
hijackVars == <<liveHijackCount, handlers>>
mainVars == <<main, srv>>
vars == <<connVars, adapterVars, hijackVars, mainVars>>

(***************************************************************************)
(* Bounds of the model.                                                    *)
(***************************************************************************)
MaxSuites == 3        \* longest offered cipher-suite list
MaxVersions == 2      \* longest supported_versions list
MaxRecords == 2       \* longest run of records the client sends
MaxRatingSuites == 2  \* longest offered list of the rating clients
MaxBeastSuites == 2   \* longest offered list of the BEAST clients
ReqLen == 2           \* bytes of application data that make a full request
MaxCallers == 2       \* goroutines that use one connection at once
MaxBody == 5          \* longest body of a supported_versions extension, in bytes
MaxHandlers == 2      \* connections of the listener served at once

(***************************************************************************)
(* Protocol versions (tls110/common.go) and the TLS 1.3 codes of           *)
(* client_info.go.                                                         *)
(***************************************************************************)
VersionSSL30 == \h0300
VersionTLS10 == \h0301
VersionTLS11 == \h0302
VersionTLS12 == \h0303
versionTLS13 == \h0304
versionTLS13Draft18 == \h7F12
versionTLS13Draft21 == \h7F15
versionTLS13Draft33 == \h7F21

\* Drafts 18 and 21..33 are keys of the map; 19 and 20 are not.
actualSupportedVersionsKeys ==
    {VersionSSL30, VersionTLS10, VersionTLS11, VersionTLS12, versionTLS13,
     versionTLS13Draft18} \cup (versionTLS13Draft21 .. versionTLS13Draft33)

actualSupportedVersions ==
    [v \in actualSupportedVersionsKeys |->
        CASE v = VersionSSL30 -> "SSL 3.0"
          [] v = VersionTLS10 -> "TLS 1.0"
          [] v = VersionTLS11 -> "TLS 1.1"
          [] v = VersionTLS12 -> "TLS 1.2"
          [] OTHER -> "TLS 1.3"]

(***************************************************************************)
(* Reason strings and ratings.                                             *)
(***************************************************************************)
fewBitReason == "The cipher uses broken encryption algorithms."
nullReason == "The cipher specifies that no encryption should be used on the connection, therefore the cipher provides no data confidentiality."
nullAuthReason == "The cipher specifies that no authentication should be used on the connection, therefore the cipher provides no data integrity guarantees."
rc4Reason == "The cipher uses the broken RC4 encryption algorithm."
sweet32Reason == "The cipher uses the broken 3DES encryption algorithm in a way that makes it highly vulnerable to the Sweet32 attack."
cbcReason == "The cipher uses cipher block chaining (CBC) mode, which is often implemented improperly, leading to padding oracle attacks."
noEphemeralReason == "The cipher does not support ephemeral keys. Use of ephemeral keys greatly improves data confidentiality by generating keys that only last for the duration of the connection."

good == "excellent"
improvable == "not bad"
bad == "bad"
good_score == 10
improvable_score == 5
bad_score == 0

(***************************************************************************)
(* The suite catalogue.  allCipherSuites is a part of the IANA table: the  *)
(* suites the server is configured with, one or more suites of every       *)
(* policy set, the two signalling codes and three TLS 1.3 suites.          *)
(***************************************************************************)
allCipherSuites ==
    (\h0001 :> "TLS_RSA_WITH_NULL_MD5") @@
    (\h0003 :> "TLS_RSA_EXPORT_WITH_RC4_40_MD5") @@
    (\h0005 :> "TLS_RSA_WITH_RC4_128_SHA") @@
    (\h0009 :> "TLS_RSA_WITH_DES_CBC_SHA") @@
    (\h000A :> "TLS_RSA_WITH_3DES_EDE_CBC_SHA") @@
    (\h0016 :> "TLS_DHE_RSA_WITH_3DES_EDE_CBC_SHA") @@
    (\h0017 :> "TLS_DH_anon_EXPORT_WITH_RC4_40_MD5") @@
    (\h001B :> "TLS_DH_anon_WITH_3DES_EDE_CBC_SHA") @@
    (\h002F :> "TLS_RSA_WITH_AES_128_CBC_SHA") @@
    (\h0033 :> "TLS_DHE_RSA_WITH_AES_128_CBC_SHA") @@
    (\h0035 :> "TLS_RSA_WITH_AES_256_CBC_SHA") @@
    (\h003C :> "TLS_RSA_WITH_AES_128_CBC_SHA256") @@
    (\h009C :> "TLS_RSA_WITH_AES_128_GCM_SHA256") @@
    (\h009D :> "TLS_RSA_WITH_AES_256_GCM_SHA384") @@
    (\h00FF :> "TLS_EMPTY_RENEGOTIATION_INFO_SCSV") @@
    (\h0A0A :> "TLS_GREASE_IS_THE_WORD_0A") @@
    (\h1301 :> "TLS_AES_128_GCM_SHA256") @@
    (\h1302 :> "TLS_AES_256_GCM_SHA384") @@
    (\h1303 :> "TLS_CHACHA20_POLY1305_SHA256") @@
    (\hC007 :> "TLS_ECDHE_ECDSA_WITH_RC4_128_SHA") @@
    (\hC009 :> "TLS_ECDHE_ECDSA_WITH_AES_128_CBC_SHA") @@
    (\hC00A :> "TLS_ECDHE_ECDSA_WITH_AES_256_CBC_SHA") @@
    (\hC011 :> "TLS_ECDHE_RSA_WITH_RC4_128_SHA") @@
    (\hC012 :> "TLS_ECDHE_RSA_WITH_3DES_EDE_CBC_SHA") @@
    (\hC013 :> "TLS_ECDHE_RSA_WITH_AES_128_CBC_SHA") @@
    (\hC014 :> "TLS_ECDHE_RSA_WITH_AES_256_CBC_SHA") @@
    (\hC023 :> "TLS_ECDHE_ECDSA_WITH_AES_128_CBC_SHA256") @@
    (\hC027 :> "TLS_ECDHE_RSA_WITH_AES_128_CBC_SHA256") @@
    (\hC02B :> "TLS_ECDHE_ECDSA_WITH_AES_128_GCM_SHA256") @@
    (\hC02C :> "TLS_ECDHE_ECDSA_WITH_AES_256_GCM_SHA384") @@
    (\hC02F :> "TLS_ECDHE_RSA_WITH_AES_128_GCM_SHA256") @@
    (\hC030 :> "TLS_ECDHE_RSA_WITH_AES_256_GCM_SHA384") @@
    (\hCCA8 :> "TLS_ECDHE_RSA_WITH_CHACHA20_POLY1305_SHA256") @@
    (\hCCA9 :> "TLS_ECDHE_ECDSA_WITH_CHACHA20_POLY1305_SHA256")

\* the characters of every name above and of the two legacy NSS names
Bytes ==
    ("TLS_RSA_WITH_NULL_MD5" :>
        <<"T","L","S","_","R","S","A","_","W","I","T","H","_","N","U","L","L","_","M","D","5">>) @@
    ("TLS_RSA_EXPORT_WITH_RC4_40_MD5" :>
        <<"T","L","S","_","R","S","A","_","E","X","P","O","R","T","_","W","I","T","H","_","R","C","4","_","4","0","_","M","D","5">>) @@
    ("TLS_RSA_WITH_RC4_128_SHA" :>
        <<"T","L","S","_","R","S","A","_","W","I","T","H","_","R","C","4","_","1","2","8","_","S","H","A">>) @@
    ("TLS_RSA_WITH_DES_CBC_SHA" :>
        <<"T","L","S","_","R","S","A","_","W","I","T","H","_","D","E","S","_","C","B","C","_","S","H","A">>) @@
    ("TLS_RSA_WITH_3DES_EDE_CBC_SHA" :>
        <<"T","L","S","_","R","S","A","_","W","I","T","H","_","3","D","E","S","_","E","D","E","_","C","B","C","_","S","H","A">>) @@
    ("TLS_DHE_RSA_WITH_3DES_EDE_CBC_SHA" :>
        <<"T","L","S","_","D","H","E","_","R","S","A","_","W","I","T","H","_","3","D","E","S","_","E","D","E","_","C","B","C","_","S","H","A">>) @@
    ("TLS_DH_anon_EXPORT_WITH_RC4_40_MD5" :>
        <<"T","L","S","_","D","H","_","a","n","o","n","_","E","X","P","O","R","T","_","W","I","T","H","_","R","C","4","_","4","0","_","M","D","5">>) @@
    ("TLS_DH_anon_WITH_3DES_EDE_CBC_SHA" :>
        <<"T","L","S","_","D","H","_","a","n","o","n","_","W","I","T","H","_","3","D","E","S","_","E","D","E","_","C","B","C","_","S","H","A">>) @@
    ("TLS_RSA_WITH_AES_128_CBC_SHA" :>
        <<"T","L","S","_","R","S","A","_","W","I","T","H","_","A","E","S","_","1","2","8","_","C","B","C","_","S","H","A">>) @@
    ("TLS_DHE_RSA_WITH_AES_128_CBC_SHA" :>
        <<"T","L","S","_","D","H","E","_","R","S","A","_","W","I","T","H","_","A","E","S","_","1","2","8","_","C","B","C","_","S","H","A">>) @@
    ("TLS_RSA_WITH_AES_256_CBC_SHA" :>
        <<"T","L","S","_","R","S","A","_","W","I","T","H","_","A","E","S","_","2","5","6","_","C","B","C","_","S","H","A">>) @@
    ("TLS_RSA_WITH_AES_128_CBC_SHA256" :>
        <<"T","L","S","_","R","S","A","_","W","I","T","H","_","A","E","S","_","1","2","8","_","C","B","C","_","S","H","A","2","5","6">>) @@
    ("TLS_RSA_WITH_AES_128_GCM_SHA256" :>
        <<"T","L","S","_","R","S","A","_","W","I","T","H","_","A","E","S","_","1","2","8","_","G","C","M","_","S","H","A","2","5","6">>) @@
    ("TLS_RSA_WITH_AES_256_GCM_SHA384" :>
        <<"T","L","S","_","R","S","A","_","W","I","T","H","_","A","E","S","_","2","5","6","_","G","C","M","_","S","H","A","3","8","4">>) @@
    ("TLS_EMPTY_RENEGOTIATION_INFO_SCSV" :>
        <<"T","L","S","_","E","M","P","T","Y","_","R","E","N","E","G","O","T","I","A","T","I","O","N","_","I","N","F","O","_","S","C","S","V">>) @@
    ("TLS_GREASE_IS_THE_WORD_0A" :>
        <<"T","L","S","_","G","R","E","A","S","E","_","I","S","_","T","H","E","_","W","O","R","D","_","0","A">>) @@
    ("TLS_AES_128_GCM_SHA256" :>
        <<"T","L","S","_","A","E","S","_","1","2","8","_","G","C","M","_","S","H","A","2","5","6">>) @@
    ("TLS_AES_256_GCM_SHA384" :>
        <<"T","L","S","_","A","E","S","_","2","5","6","_","G","C","M","_","S","H","A","3","8","4">>) @@
    ("TLS_CHACHA20_POLY1305_SHA256" :>
        <<"T","L","S","_","C","H","A","C","H","A","2","0","_","P","O","L","Y","1","3","0","5","_","S","H","A","2","5","6">>) @@
    ("TLS_ECDHE_ECDSA_WITH_RC4_128_SHA" :>
        <<"T","L","S","_","E","C","D","H","E","_","E","C","D","S","A","_","W","I","T","H","_","R","C","4","_","1","2","8","_","S","H","A">>) @@
    ("TLS_ECDHE_ECDSA_WITH_AES_128_CBC_SHA" :>
        <<"T","L","S","_","E","C","D","H","E","_","E","C","D","S","A","_","W","I","T","H","_","A","E","S","_","1","2","8","_","C","B","C","_","S","H","A">>) @@
    ("TLS_ECDHE_ECDSA_WITH_AES_256_CBC_SHA" :>
        <<"T","L","S","_","E","C","D","H","E","_","E","C","D","S","A","_","W","I","T","H","_","A","E","S","_","2","5","6","_","C","B","C","_","S","H","A">>) @@
    ("TLS_ECDHE_RSA_WITH_RC4_128_SHA" :>
        <<"T","L","S","_","E","C","D","H","E","_","R","S","A","_","W","I","T","H","_","R","C","4","_","1","2","8","_","S","H","A">>) @@
    ("TLS_ECDHE_RSA_WITH_3DES_EDE_CBC_SHA" :>
        <<"T","L","S","_","E","C","D","H","E","_","R","S","A","_","W","I","T","H","_","3","D","E","S","_","E","D","E","_","C","B","C","_","S","H","A">>) @@
    ("TLS_ECDHE_RSA_WITH_AES_128_CBC_SHA" :>
        <<"T","L","S","_","E","C","D","H","E","_","R","S","A","_","W","I","T","H","_","A","E","S","_","1","2","8","_","C","B","C","_","S","H","A">>) @@
    ("TLS_ECDHE_RSA_WITH_AES_256_CBC_SHA" :>
        <<"T","L","S","_","E","C","D","H","E","_","R","S","A","_","W","I","T","H","_","A","E","S","_","2","5","6","_","C","B","C","_","S","H","A">>) @@
    ("TLS_ECDHE_ECDSA_WITH_AES_128_CBC_SHA256" :>
        <<"T","L","S","_","E","C","D","H","E","_","E","C","D","S","A","_","W","I","T","H","_","A","E","S","_","1","2","8","_","C","B","C","_","S","H","A","2","5","6">>) @@
    ("TLS_ECDHE_RSA_WITH_AES_128_CBC_SHA256" :>
        <<"T","L","S","_","E","C","D","H","E","_","R","S","A","_","W","I","T","H","_","A","E","S","_","1","2","8","_","C","B","C","_","S","H","A","2","5","6">>) @@
    ("TLS_ECDHE_ECDSA_WITH_AES_128_GCM_SHA256" :>
        <<"T","L","S","_","E","C","D","H","E","_","E","C","D","S","A","_","W","I","T","H","_","A","E","S","_","1","2","8","_","G","C","M","_","S","H","A","2","5","6">>) @@
    ("TLS_ECDHE_ECDSA_WITH_AES_256_GCM_SHA384" :>
        <<"T","L","S","_","E","C","D","H","E","_","E","C","D","S","A","_","W","I","T","H","_","A","E","S","_","2","5","6","_","G","C","M","_","S","H","A","3","8","4">>) @@
    ("TLS_ECDHE_RSA_WITH_AES_128_GCM_SHA256" :>
        <<"T","L","S","_","E","C","D","H","E","_","R","S","A","_","W","I","T","H","_","A","E","S","_","1","2","8","_","G","C","M","_","S","H","A","2","5","6">>) @@
    ("TLS_ECDHE_RSA_WITH_AES_256_GCM_SHA384" :>
        <<"T","L","S","_","E","C","D","H","E","_","R","S","A","_","W","I","T","H","_","A","E","S","_","2","5","6","_","G","C","M","_","S","H","A","3","8","4">>) @@
    ("TLS_ECDHE_RSA_WITH_CHACHA20_POLY1305_SHA256" :>
        <<"T","L","S","_","E","C","D","H","E","_","R","S","A","_","W","I","T","H","_","C","H","A","C","H","A","2","0","_","P","O","L","Y","1","3","0","5","_","S","H","A","2","5","6">>) @@
    ("TLS_ECDHE_ECDSA_WITH_CHACHA20_POLY1305_SHA256" :>
        <<"T","L","S","_","E","C","D","H","E","_","E","C","D","S","A","_","W","I","T","H","_","C","H","A","C","H","A","2","0","_","P","O","L","Y","1","3","0","5","_","S","H","A","2","5","6">>) @@
    ("SSL_RSA_FIPS_WITH_DES_CBC_SHA" :>
        <<"S","S","L","_","R","S","A","_","F","I","P","S","_","W","I","T","H","_","D","E","S","_","C","B","C","_","S","H","A">>) @@
    ("SSL_RSA_FIPS_WITH_3DES_EDE_CBC_SHA" :>
        <<"S","S","L","_","R","S","A","_","F","I","P","S","_","W","I","T","H","_","3","D","E","S","_","E","D","E","_","C","B","C","_","S","H","A">>)

fewBitCipherSuites ==
    {"TLS_DHE_DSS_EXPORT_WITH_DES40_CBC_SHA",
     "TLS_DHE_DSS_WITH_DES_CBC_SHA",
     "TLS_DHE_RSA_EXPORT_WITH_DES40_CBC_SHA",
     "TLS_DHE_RSA_WITH_DES_CBC_SHA",
     "TLS_DH_DSS_EXPORT_WITH_DES40_CBC_SHA",
     "TLS_DH_DSS_WITH_DES_CBC_SHA",
     "TLS_DH_RSA_EXPORT_WITH_DES40_CBC_SHA",
     "TLS_DH_RSA_WITH_DES_CBC_SHA",
     "TLS_DH_anon_EXPORT_WITH_DES40_CBC_SHA",
     "TLS_DH_anon_EXPORT_WITH_RC4_40_MD5",
     "TLS_DH_anon_WITH_DES_CBC_SHA",
     "TLS_RSA_EXPORT_WITH_DES40_CBC_SHA",
     "TLS_RSA_EXPORT_WITH_RC2_CBC_40_MD5",
     "TLS_RSA_EXPORT_WITH_RC4_40_MD5",
     "TLS_RSA_WITH_DES_CBC_SHA",
     "TLS_KRB5_EXPORT_WITH_DES_CBC_40_MD5",
     "TLS_KRB5_EXPORT_WITH_DES_CBC_40_SHA",
     "TLS_KRB5_EXPORT_WITH_RC4_40_MD5",
     "TLS_KRB5_EXPORT_WITH_RC4_40_SHA",
     "TLS_KRB5_WITH_DES_CBC_MD5",
     "TLS_KRB5_WITH_DES_CBC_SHA",
     "TLS_RSA_EXPORT1024_WITH_DES_CBC_SHA",
     "TLS_DHE_DSS_EXPORT1024_WITH_DES_CBC_SHA",
     "TLS_RSA_EXPORT1024_WITH_RC4_56_SHA",
     "TLS_DHE_DSS_EXPORT1024_WITH_RC4_56_SHA",
     "TLS_RSA_EXPORT1024_WITH_RC4_56_MD5",
     "TLS_RSA_EXPORT1024_WITH_RC2_CBC_56_MD5"}

nullCipherSuites ==
    {"TLS_DHE_PSK_WITH_NULL_SHA",
     "TLS_DHE_PSK_WITH_NULL_SHA256",
     "TLS_DHE_PSK_WITH_NULL_SHA384",
     "TLS_ECDHE_ECDSA_WITH_NULL_SHA",
     "TLS_ECDHE_PSK_WITH_NULL_SHA",
     "TLS_ECDHE_PSK_WITH_NULL_SHA256",
     "TLS_ECDHE_PSK_WITH_NULL_SHA384",
     "TLS_ECDHE_RSA_WITH_NULL_SHA",
     "TLS_ECDH_ECDSA_WITH_NULL_SHA",
     "TLS_ECDH_RSA_WITH_NULL_SHA",
     "TLS_ECDH_anon_WITH_NULL_SHA",
     "TLS_NULL_WITH_NULL_NULL",
     "TLS_PSK_WITH_NULL_SHA",
     "TLS_PSK_WITH_NULL_SHA256",
     "TLS_PSK_WITH_NULL_SHA384",
     "TLS_RSA_PSK_WITH_NULL_SHA",
     "TLS_RSA_PSK_WITH_NULL_SHA256",
     "TLS_RSA_PSK_WITH_NULL_SHA384",
     "TLS_RSA_WITH_NULL_MD5",
     "TLS_RSA_WITH_NULL_SHA",
     "TLS_RSA_WITH_NULL_SHA256"}

nullAuthCipherSuites ==
    {"TLS_DH_anon_EXPORT_WITH_DES40_CBC_SHA",
     "TLS_DH_anon_EXPORT_WITH_RC4_40_MD5",
     "TLS_DH_anon_WITH_3DES_EDE_CBC_SHA",
     "TLS_DH_anon_WITH_AES_128_CBC_SHA",
     "TLS_DH_anon_WITH_AES_128_CBC_SHA256",
     "TLS_DH_anon_WITH_AES_128_GCM_SHA256",
     "TLS_DH_anon_WITH_AES_256_CBC_SHA",
     "TLS_DH_anon_WITH_AES_256_CBC_SHA256",
     "TLS_DH_anon_WITH_AES_256_GCM_SHA384",
     "TLS_DH_anon_WITH_ARIA_128_CBC_SHA256",
     "TLS_DH_anon_WITH_ARIA_128_GCM_SHA256",
     "TLS_DH_anon_WITH_ARIA_256_CBC_SHA384",
     "TLS_DH_anon_WITH_ARIA_256_GCM_SHA384",
     "TLS_DH_anon_WITH_CAMELLIA_128_CBC_SHA",
     "TLS_DH_anon_WITH_CAMELLIA_128_CBC_SHA256",
     "TLS_DH_anon_WITH_CAMELLIA_128_GCM_SHA256",
     "TLS_DH_anon_WITH_CAMELLIA_256_CBC_SHA",
     "TLS_DH_anon_WITH_CAMELLIA_256_CBC_SHA256",
     "TLS_DH_anon_WITH_CAMELLIA_256_GCM_SHA384",
     "TLS_DH_anon_WITH_DES_CBC_SHA",
     "TLS_DH_anon_WITH_RC4_128_MD5",
     "TLS_DH_anon_WITH_SEED_CBC_SHA",
     "TLS_ECDH_anon_WITH_3DES_EDE_CBC_SHA",
     "TLS_ECDH_anon_WITH_AES_128_CBC_SHA",
     "TLS_ECDH_anon_WITH_AES_256_CBC_SHA",
     "TLS_ECDH_anon_WITH_NULL_SHA",
     "TLS_ECDH_anon_WITH_RC4_128_SHA"}

rc4CipherSuites ==
    {"TLS_RSA_EXPORT_WITH_RC4_40_MD5",
     "TLS_RSA_WITH_RC4_128_MD5",
     "TLS_RSA_WITH_RC4_128_SHA",
     "TLS_DH_anon_EXPORT_WITH_RC4_40_MD5",
     "TLS_DH_anon_WITH_RC4_128_MD5",
     "TLS_KRB5_WITH_RC4_128_SHA",
     "TLS_KRB5_WITH_RC4_128_MD5",
     "TLS_KRB5_EXPORT_WITH_RC4_40_SHA",
     "TLS_KRB5_EXPORT_WITH_RC4_40_MD5",
     "TLS_PSK_WITH_RC4_128_SHA",
     "TLS_DHE_PSK_WITH_RC4_128_SHA",
     "TLS_RSA_PSK_WITH_RC4_128_SHA",
     "TLS_ECDH_ECDSA_WITH_RC4_128_SHA",
     "TLS_ECDHE_ECDSA_WITH_RC4_128_SHA",
     "TLS_ECDH_RSA_WITH_RC4_128_SHA",
     "TLS_ECDHE_RSA_WITH_RC4_128_SHA",
     "TLS_ECDH_anon_WITH_RC4_128_SHA",
     "TLS_ECDHE_PSK_WITH_RC4_128_SHA",
     "TLS_RSA_EXPORT1024_WITH_RC4_56_SHA",
     "TLS_DHE_DSS_EXPORT1024_WITH_RC4_56_SHA",
     "TLS_DHE_DSS_WITH_RC4_128_SHA"}

sweet32CipherSuites ==
    {"TLS_RSA_WITH_3DES_EDE_CBC_SHA",
     "TLS_DH_DSS_WITH_3DES_EDE_CBC_SHA",
     "TLS_DH_RSA_WITH_3DES_EDE_CBC_SHA",
     "TLS_DHE_DSS_WITH_3DES_EDE_CBC_SHA",
     "TLS_DHE_RSA_WITH_3DES_EDE_CBC_SHA",
     "TLS_DH_anon_WITH_3DES_EDE_CBC_SHA",
     "TLS_KRB5_WITH_3DES_EDE_CBC_SHA",
     "TLS_KRB5_WITH_3DES_EDE_CBC_MD5",
     "TLS_PSK_WITH_3DES_EDE_CBC_SHA",
     "TLS_DHE_PSK_WITH_3DES_EDE_CBC_SHA",
     "TLS_RSA_PSK_WITH_3DES_EDE_CBC_SHA",
     "TLS_ECDH_ECDSA_WITH_3DES_EDE_CBC_SHA",
     "TLS_ECDHE_ECDSA_WITH_3DES_EDE_CBC_SHA",
     "TLS_ECDH_RSA_WITH_3DES_EDE_CBC_SHA",
     "TLS_ECDHE_RSA_WITH_3DES_EDE_CBC_SHA",
     "TLS_ECDH_anon_WITH_3DES_EDE_CBC_SHA",
     "TLS_SRP_SHA_WITH_3DES_EDE_CBC_SHA",
     "TLS_SRP_SHA_RSA_WITH_3DES_EDE_CBC_SHA",
     "TLS_SRP_SHA_DSS_WITH_3DES_EDE_CBC_SHA",
     "TLS_ECDHE_PSK_WITH_3DES_EDE_CBC_SHA"}

weirdNSSSuites ==
    (\hFEFE :> "SSL_RSA_FIPS_WITH_DES_CBC_SHA") @@
    (\hFEFF :> "SSL_RSA_FIPS_WITH_3DES_EDE_CBC_SHA")

metaCipherSuites == {\h00FF, \h0A0A}

tls13Suites == \h1301 .. \h1305

(***************************************************************************)
(* strings.Contains, on the characters of a string.                        *)
(***************************************************************************)
HasPrefixAt(s, sub, i) ==
    /\ i + Len(sub) - 1 <= Len(s)
    /\ \A k \in 1..Len(sub) : s[i + k - 1] = sub[k]

Contains(s, sub) == \E i \in 1..(Len(Bytes[s]) + 1) : HasPrefixAt(Bytes[s], sub, i)

strDHE == <<"D","H","E","_">>
strCBC == <<"_","C","B","C">>
strTLSRSAWITH == <<"T","L","S","_","R","S","A","_","W","I","T","H">>

\* the suites whose name contains "_CBC", by code
cbcSuites == {ci \in DOMAIN allCipherSuites : Contains(allCipherSuites[ci], strCBC)}

(***************************************************************************)
(* The server configuration of makeTLSConfig and the negotiation of        *)
(* readClientHello.                                                        *)
(***************************************************************************)
TLS_RSA_WITH_AES_128_CBC_SHA == \h002F
TLS_RSA_WITH_AES_256_CBC_SHA == \h0035
TLS_RSA_WITH_AES_128_CBC_SHA256 == \h003C

\* tlsConf.CipherSuites, in the configured order
configCipherSuites ==
    <<\hCCA9, \hCCA8, \hC02F, \hC02B, \hC030, \hC02C, \hC011, \hC007,
      \hC013, \hC009, \hC023, \hC014, \hC027, \hC00A, \h009C, \h009D,
      \h0005, TLS_RSA_WITH_AES_128_CBC_SHA, TLS_RSA_WITH_AES_128_CBC_SHA256,
      TLS_RSA_WITH_AES_256_CBC_SHA, \hC012, \h000A>>

\* flags of the implemented suites (tls110/cipher_suites.go)
suiteECDHE ==
    {\hCCA9, \hCCA8, \hC02F, \hC02B, \hC030, \hC02C, \hC011, \hC007,
     \hC013, \hC009, \hC023, \hC014, \hC027, \hC00A, \hC012}
suiteECDSA == {\hCCA9, \hC02B, \hC02C, \hC007, \hC009, \hC023, \hC00A}
suiteTLS12 ==
    {\hCCA9, \hCCA8, \hC02F, \hC02B, \hC030, \hC02C, \hC023, \hC027,
     \h009C, \h009D, TLS_RSA_WITH_AES_128_CBC_SHA256}
implementedSuites ==
    suiteECDHE \cup {\h009C, \h009D, \h0005, \h000A,
                     TLS_RSA_WITH_AES_128_CBC_SHA, TLS_RSA_WITH_AES_256_CBC_SHA,
                     TLS_RSA_WITH_AES_128_CBC_SHA256}

Range(s) == {s[i] : i \in DOMAIN s}

\* Config.mutualVersion with MinVersion = SSL 3.0 and the default maximum TLS 1.2
mutualVersionOk(vers) == vers >= VersionSSL30
mutualVersion(vers) == IF vers > VersionTLS12 THEN VersionTLS12 ELSE vers

\* setCipherSuite: id is one of supportedCipherSuites, is implemented, fits the
\* certificate's key and the negotiated version
setCipherSuite(id, supportedCipherSuites, version, cert) ==
    /\ id \in Range(supportedCipherSuites)
    /\ id \in implementedSuites
    /\ IF id \in suiteECDHE
          THEN (IF id \in suiteECDSA THEN cert = "ECDSA" ELSE cert = "RSA")
          ELSE cert = "RSA"
    /\ ~(version < VersionTLS12 /\ id \in suiteTLS12)

FirstIndex(s, P(_)) ==
    IF \E i \in DOMAIN s : P(s[i])
       THEN CHOOSE i \in DOMAIN s : P(s[i]) /\ \A j \in 1..(i - 1) : ~P(s[j])
       ELSE 0

\* beastSuiteIndex without the test of the ClientHello's version
beastSuiteIndexAnyVersion(h, vers, cert) ==
    LET ok(cs) == /\ cs \in {TLS_RSA_WITH_AES_128_CBC_SHA, TLS_RSA_WITH_AES_256_CBC_SHA,
                             TLS_RSA_WITH_AES_128_CBC_SHA256}
                  /\ setCipherSuite(cs, configCipherSuites, vers, cert)
    IN  FirstIndex(h.cipherSuites, ok)

\* the loop added to readClientHello: the first offered suite among the three
\* RSA CBC suites that setCipherSuite accepts, or 0
beastSuiteIndex(h, vers, cert) ==
    LET ok(cs) == /\ cs \in {TLS_RSA_WITH_AES_128_CBC_SHA, TLS_RSA_WITH_AES_256_CBC_SHA,
                             TLS_RSA_WITH_AES_128_CBC_SHA256}
                  /\ setCipherSuite(cs, configCipherSuites, vers, cert)
    IN  IF h.vers <= VersionTLS10 THEN FirstIndex(h.cipherSuites, ok) ELSE 0

\* the usual selection, PreferServerCipherSuites = true
preferenceIndex(h, vers, cert) ==
    LET ok(id) == setCipherSuite(id, h.cipherSuites, vers, cert)
    IN  FirstIndex(configCipherSuites, ok)

\* an empty session ticket, and the state a ticket of this server holds
NoTicket == [vers |-> 0, cipherSuite |-> 0]
SessionState(vers, cipherSuite) == [vers |-> vers, cipherSuite |-> cipherSuite]

\* checkForResumption: the ticket decrypts, is of the negotiated version, and
\* its suite is still offered by the client and supported by the server
checkForResumption(h, vers, cert) ==
    /\ h.sessionTicket # NoTicket
    /\ h.sessionTicket.vers = vers
    /\ h.sessionTicket.cipherSuite \in Range(h.cipherSuites)
    /\ setCipherSuite(h.sessionTicket.cipherSuite, configCipherSuites,
                      h.sessionTicket.vers, cert)

\* the test of resumption without the test of the ClientHello's version
isResumeAnyVersion(h, vers, cert) == checkForResumption(h, vers, cert)

\* the test of resumption in readClientHello: never at TLS 1.0 or below
isResume(h, vers, cert) ==
    h.vers > VersionTLS10 /\ checkForResumption(h, vers, cert)

\* the negotiation's result: ok, resumed or not, the version, the suite, the
\* probe armed or not
readClientHello(h, cert) ==
    LET vers == mutualVersion(h.vers)
        resume == isResume(h, vers, cert)
        b == IF resume THEN 0 ELSE beastSuiteIndex(h, vers, cert)
        p == preferenceIndex(h, vers, cert)
    IN  [ok |-> /\ mutualVersionOk(h.vers)
                /\ 0 \in Range(h.compressionMethods)
                /\ (resume \/ b # 0 \/ p # 0),
         isResume |-> resume,
         vers |-> vers,
         suite |-> IF resume THEN h.sessionTicket.cipherSuite
                   ELSE IF b # 0 THEN h.cipherSuites[b]
                   ELSE IF p # 0 THEN configCipherSuites[p] ELSE 0,
         ableToDetectNMinusOneSplitting |-> b # 0]

(***************************************************************************)
(* Conn.ConnectionState: the snapshot the classifier reads.                *)
(***************************************************************************)
ConnectionState(conn) ==
    IF conn.handshakeComplete
       THEN [HandshakeComplete |-> TRUE,
             Version |-> conn.vers,
             ClientCipherSuites |-> conn.clientHello.cipherSuites,
             CompressionMethods |-> conn.clientHello.compressionMethods,
             AbleToDetectNMinusOneSplitting |-> conn.ableToDetectNMinusOneSplitting,
             NMinusOneRecordSplittingDetected |-> conn.nMinusOneRecordSplittingDetected,
             SessionTicketsSupported |-> conn.clientHello.ticketSupported,
             SupportedVersions |-> conn.clientHello.supportedVersions]
       ELSE [HandshakeComplete |-> FALSE,
             Version |-> 0,
             ClientCipherSuites |-> <<>>,
             CompressionMethods |-> <<>>,
             AbleToDetectNMinusOneSplitting |-> FALSE,
             NMinusOneRecordSplittingDetected |-> FALSE,
             SessionTicketsSupported |-> FALSE,
             SupportedVersions |-> <<>>]

(***************************************************************************)
(* pullClientInfo, the classifier.                                         *)
(***************************************************************************)
emptyMap == [k \in {} |-> <<>>]

\* m[k] = append(m[k], v) on a map[string][]string
MapAppend(m, k, v) ==
    IF k \in DOMAIN m THEN [m EXCEPT ![k] = Append(@, v)] ELSE m @@ (k :> <<v>>)

RECURSIVE MapAppendSeq(_, _, _)
MapAppendSeq(m, k, vs) ==
    IF vs = <<>> THEN m ELSE MapAppendSeq(MapAppend(m, k, Head(vs)), k, Tail(vs))

RECURSIVE MapAppendKeys(_, _, _)
MapAppendKeys(m, ks, v) ==
    IF ks = <<>> THEN m ELSE MapAppendKeys(MapAppend(m, Head(ks), v), Tail(ks), v)

\* fmt.Sprintf("%#04x", ci): "0x" and at least four lowercase hex digits
hexDigits == <<"0","1","2","3","4","5","6","7","8","9","a","b","c","d","e","f">>
RECURSIVE hex(_, _)
hex(n, width) ==
    IF n = 0 /\ width <= 0 THEN ""
    ELSE hex(n \div 16, width - 1) \o hexDigits[(n % 16) + 1]
\* unknownName with the digits not padded to four
unknownNameUnpadded(ci) == "An unknown cipher suite: " \o "0x" \o hex(ci, 0)

unknownName(ci) == "An unknown cipher suite: " \o "0x" \o hex(ci, 4)

clientInfo0 ==
    [SupportedCipherSuites |-> <<>>,
     WeakCipherSuites |-> emptyMap,
     BrokenCipherSuites |-> emptyMap,
     EphemeralKeysSupported |-> FALSE,
     SessionTicketsSupported |-> FALSE,
     TLSCompressionSupported |-> FALSE,
     UnknownCipherSuiteSupported |-> FALSE,
     BEASTVuln |-> FALSE,
     AbleToDetectNMinusOneSplitting |-> FALSE,
     TLSVersion |-> "",
     TLSVersionFloat |-> 0,
     Rating |-> "",
     RatingScore |-> 0]

\* weakReasons with the second test as an else-if of the first
weakReasonsElseIf(s) ==
    IF Contains(s, strCBC) THEN <<cbcReason>>
    ELSE IF Contains(s, strTLSRSAWITH) THEN <<noEphemeralReason>> ELSE <<>>

\* lines 101-106: the reasons appended to WeakCipherSuites[s], in order
weakReasons(s) ==
    (IF Contains(s, strCBC) THEN <<cbcReason>> ELSE <<>>) \o
    (IF Contains(s, strTLSRSAWITH) THEN <<noEphemeralReason>> ELSE <<>>)

\* brokenReasons with the four tests as one else-if chain
brokenReasonsElseIf(s) ==
    IF s \in fewBitCipherSuites THEN <<fewBitReason>>
    ELSE IF s \in nullCipherSuites THEN <<nullReason>>
    ELSE IF s \in nullAuthCipherSuites THEN <<nullAuthReason>>
    ELSE IF s \in rc4CipherSuites THEN <<rc4Reason>> ELSE <<>>

\* lines 112-123: the reasons appended to BrokenCipherSuites[s], in order
brokenReasons(s) ==
    (IF s \in fewBitCipherSuites THEN <<fewBitReason>> ELSE <<>>) \o
    (IF s \in nullCipherSuites THEN <<nullReason>> ELSE <<>>) \o
    (IF s \in nullAuthCipherSuites THEN <<nullAuthReason>> ELSE <<>>) \o
    (IF s \in rc4CipherSuites THEN <<rc4Reason>> ELSE <<>>)

\* beastApplies without the test of the negotiated version
beastAppliesAnyVersion(ci, st) == ci \in cbcSuites

\* line 108: the suite and version under which the BEAST flags are copied
beastApplies(ci, st) == ci \in cbcSuites /\ st.Version <= VersionTLS10

\* sweet32Flush with the pending list tested for more than one name
sweet32FlushOffByOne(ci, sweet32Seen) ==
    Len(sweet32Seen) > 1 /\ ci \notin metaCipherSuites /\ ci \notin tls13Suites

\* sweet32Flush without the test for the signalling suites
sweet32FlushOnMeta(ci, sweet32Seen) ==
    Len(sweet32Seen) # 0 /\ ci \notin tls13Suites

\* line 126: the else-if under which the pending 3DES names are flushed
sweet32Flush(ci, sweet32Seen) ==
    Len(sweet32Seen) # 0 /\ ci \notin metaCipherSuites /\ ci \notin tls13Suites

\* lines 95-131: a code found in allCipherSuites
foundSuite(acc, ci, st) ==
    LET s == allCipherSuites[ci]
        d0 == acc.d
        d1 == [d0 EXCEPT
                 !.EphemeralKeysSupported = @ \/ Contains(s, strDHE),
                 !.WeakCipherSuites = MapAppendSeq(@, s, weakReasons(s)),
                 !.BEASTVuln =
                     IF beastApplies(ci, st)
                        THEN ~st.NMinusOneRecordSplittingDetected ELSE @,
                 !.AbleToDetectNMinusOneSplitting =
                     IF beastApplies(ci, st)
                        THEN st.AbleToDetectNMinusOneSplitting ELSE @,
                 !.BrokenCipherSuites = MapAppendSeq(@, s, brokenReasons(s))]
    IN  IF s \in sweet32CipherSuites
           THEN [d |-> d1, sweet32Seen |-> Append(acc.sweet32Seen, s), s |-> s]
        ELSE IF sweet32Flush(ci, acc.sweet32Seen)
           THEN [d |-> [d1 EXCEPT !.BrokenCipherSuites =
                            MapAppendKeys(@, acc.sweet32Seen, sweet32Reason)],
                 sweet32Seen |-> <<>>, s |-> s]
        ELSE [d |-> d1, sweet32Seen |-> acc.sweet32Seen, s |-> s]

\* notFoundSuite with fewBitReason recorded for every code it is given
notFoundSuiteAlwaysBroken(acc, ci) ==
    LET s == IF ci \notin DOMAIN weirdNSSSuites THEN unknownName(ci)
                                               ELSE weirdNSSSuites[ci]
    IN  [d |-> [acc.d EXCEPT
                  !.UnknownCipherSuiteSupported = @ \/ ci \notin DOMAIN weirdNSSSuites,
                  !.BrokenCipherSuites = MapAppend(@, s, fewBitReason)],
         sweet32Seen |-> acc.sweet32Seen, s |-> s]

\* lines 132-142: a code not found in allCipherSuites
notFoundSuite(acc, ci) ==
    IF ci \notin DOMAIN weirdNSSSuites
       THEN [d |-> [acc.d EXCEPT !.UnknownCipherSuiteSupported = TRUE],
             sweet32Seen |-> acc.sweet32Seen, s |-> unknownName(ci)]
       ELSE [d |-> [acc.d EXCEPT !.BrokenCipherSuites =
                        MapAppend(@, weirdNSSSuites[ci], fewBitReason)],
             sweet32Seen |-> acc.sweet32Seen, s |-> weirdNSSSuites[ci]]

\* suiteStep with the append of the name inside the found branch
suiteStepAppendWhenFound(acc, ci, st) ==
    IF ci \in DOMAIN allCipherSuites
       THEN LET r == foundSuite(acc, ci, st)
            IN  [d |-> [r.d EXCEPT !.SupportedCipherSuites = Append(@, r.s)],
                 sweet32Seen |-> r.sweet32Seen]
       ELSE LET r == notFoundSuite(acc, ci)
            IN  [d |-> r.d, sweet32Seen |-> r.sweet32Seen]

\* lines 94-144: one iteration of the loop over st.ClientCipherSuites
suiteStep(acc, ci, st) ==
    LET r == IF ci \in DOMAIN allCipherSuites
                THEN foundSuite(acc, ci, st) ELSE notFoundSuite(acc, ci)
    IN  [d |-> [r.d EXCEPT !.SupportedCipherSuites = Append(@, r.s)],
         sweet32Seen |-> r.sweet32Seen]

RECURSIVE suiteLoop(_, _, _)
suiteLoop(acc, suites, st) ==
    IF suites = <<>> THEN acc
    ELSE suiteLoop(suiteStep(acc, Head(suites), st), Tail(suites), st)

\* lines 147-152
compressionSupported(methods) == \E i \in DOMAIN methods : methods[i] # 0

\* a lookup in actualSupportedVersions that gives TLS 1.0 for an absent key
versionNameDefault(v) ==
    IF v \in DOMAIN actualSupportedVersions THEN actualSupportedVersions[v] ELSE "TLS 1.0"

\* a lookup in actualSupportedVersions; "" when the key is absent
versionName(v) ==
    IF v \in DOMAIN actualSupportedVersions THEN actualSupportedVersions[v] ELSE ""

\* versionUpgrades without the test that the value is a key of the map
versionUpgradesUnrecognised(v, vers) == v > vers

\* line 160: the test under which a supported_versions value replaces vers
versionUpgrades(v, vers) == v \in DOMAIN actualSupportedVersions /\ v > vers

\* lines 153-164: vers and TLSVersion after the loop over st.SupportedVersions
RECURSIVE versionLoop(_, _)
versionLoop(cur, versions) ==
    IF versions = <<>> THEN cur
    ELSE LET v == Head(versions)
         IN  versionLoop(IF versionUpgrades(v, cur.vers)
                            THEN [vers |-> v, TLSVersion |-> versionName(v)]
                            ELSE cur,
                         Tail(versions))

\* the characters of the version names, for TLSVersion[4:]
versionBytes ==
    ("SSL 3.0" :> <<"S","S","L"," ","3",".","0">>) @@
    ("TLS 1.0" :> <<"T","L","S"," ","1",".","0">>) @@
    ("TLS 1.1" :> <<"T","L","S"," ","1",".","1">>) @@
    ("TLS 1.2" :> <<"T","L","S"," ","1",".","2">>) @@
    ("TLS 1.3" :> <<"T","L","S"," ","1",".","3">>)

digit(ch) ==
    CASE ch = "0" -> 0 [] ch = "1" -> 1 [] ch = "2" -> 2 [] ch = "3" -> 3
      [] ch = "4" -> 4 [] ch = "5" -> 5 [] ch = "6" -> 6 [] ch = "7" -> 7
      [] ch = "8" -> 8 [] ch = "9" -> 9 [] OTHER -> -1

\* strconv.ParseFloat on "d.d", in tenths; 0 when it does not parse
parseFloatTenths(chars) ==
    IF /\ Len(chars) = 3
       /\ digit(chars[1]) >= 0 /\ chars[2] = "." /\ digit(chars[3]) >= 0
       THEN 10 * digit(chars[1]) + digit(chars[3])
       ELSE 0

\* lines 165-171
versionFloat(TLSVersion) ==
    IF TLSVersion = "" THEN 0
    ELSE parseFloatTenths(SubSeq(versionBytes[TLSVersion], 5, Len(versionBytes[TLSVersion])))

\* isImprovable without the test for TLS 1.2
isImprovableNoVersion(dd, vers) ==
    ~dd.EphemeralKeysSupported \/ ~dd.SessionTicketsSupported

\* line 176
isImprovable(dd, vers) ==
    ~dd.EphemeralKeysSupported \/ vers = VersionTLS12 \/ ~dd.SessionTicketsSupported

\* isBad without the test for compression
isBadNoCompression(dd, vers) ==
    \/ dd.UnknownCipherSuiteSupported
    \/ dd.BEASTVuln
    \/ DOMAIN dd.BrokenCipherSuites # {}
    \/ vers <= VersionTLS11

\* isBad without the test for unknown suites
isBadNoUnknown(dd, vers) ==
    \/ dd.TLSCompressionSupported
    \/ dd.BEASTVuln
    \/ DOMAIN dd.BrokenCipherSuites # {}
    \/ vers <= VersionTLS11

\* lines 181-185
isBad(dd, vers) ==
    \/ dd.TLSCompressionSupported
    \/ dd.UnknownCipherSuiteSupported
    \/ dd.BEASTVuln
    \/ DOMAIN dd.BrokenCipherSuites # {}
    \/ vers <= VersionTLS11

\* lines 173-188
rate(dd, vers) ==
    IF isBad(dd, vers) THEN [dd EXCEPT !.Rating = bad, !.RatingScore = bad_score]
    ELSE IF isImprovable(dd, vers)
       THEN [dd EXCEPT !.Rating = improvable, !.RatingScore = improvable_score]
    ELSE [dd EXCEPT !.Rating = good, !.RatingScore = good_score]

\* lines 89-92: the call ends in a panic, no clientInfo is returned
Panic == [Rating |-> "panic"]

pullClientInfo(st) ==
    IF ~st.HandshakeComplete THEN Panic ELSE
    LET looped == suiteLoop([d |-> clientInfo0, sweet32Seen |-> <<>>],
                            st.ClientCipherSuites, st).d
        v == versionLoop([vers |-> st.Version, TLSVersion |-> versionName(st.Version)],
                         st.SupportedVersions)
        d1 == [looped EXCEPT
                 !.SessionTicketsSupported = st.SessionTicketsSupported,
                 !.TLSCompressionSupported = compressionSupported(st.CompressionMethods),
                 !.TLSVersion = IF v.TLSVersion = ""
                                   THEN "an unknown version of SSL/TLS" ELSE v.TLSVersion,
                 !.TLSVersionFloat = versionFloat(v.TLSVersion)]
    IN  rate(d1, v.vers)

(***************************************************************************)
(* The conn adapter: Read and Write drive the handshake lazily, handshake  *)
(* keeps the handshake state in conn.st, TLSData reads it.                 *)
(***************************************************************************)
\* &conn{tlsConn, &sync.Mutex{}, nil} of listener.Accept
AdapterInit ==
    /\ conn_st = [val |-> "nil", writes |-> 0]
    /\ handshakeMutex = 0
    /\ tlsConn = [handshakeComplete |-> FALSE, handshakeErr |-> FALSE, handshakes |-> 0]
    /\ sock = [closed |-> FALSE, io |-> 0]

\* a goroutine about to call Read or Write
caller0(op) == [op |-> op, pc |-> "call", ret |-> "none", n |-> 0, err |-> FALSE]

\* Conn.ServerHandshake, under the tls.Conn's own mutex: the error of an
\* earlier handshake, HandshakeAlreadyPerformedError after a completed one, or
\* the one run of the handshake, which the ClientHello decides
ServerHandshakeCall(tc, h, cert) ==
    IF tc.handshakeErr
       THEN [conn |-> tc, ret |-> "err"]
    ELSE IF tc.handshakeComplete
       THEN [conn |-> tc, ret |-> "HandshakeAlreadyPerformedError"]
    ELSE IF readClientHello(h, cert).ok
       THEN [conn |-> [tc EXCEPT !.handshakeComplete = TRUE, !.handshakes = @ + 1],
             ret |-> "st"]
       ELSE [conn |-> [tc EXCEPT !.handshakeErr = TRUE, !.handshakes = @ + 1],
             ret |-> "err"]

\* handshake without the early return on HandshakeAlreadyPerformedError
handshakeNoEarlyReturn(ret, closed) ==
    IF ret = "err" THEN [pc |-> "failed", closed |-> closed]
    ELSE [pc |-> "lock", closed |-> closed]

\* handshake that closes the socket when the handshake fails
handshakeClosesOnError(ret, closed) ==
    IF ret = "HandshakeAlreadyPerformedError" THEN [pc |-> "io", closed |-> closed]
    ELSE IF ret = "err" THEN [pc |-> "failed", closed |-> TRUE]
    ELSE [pc |-> "lock", closed |-> closed]

\* conn.handshake after ServerHandshake returned: nil at once when the handshake
\* was already performed, the error when it failed, else on to store the state;
\* the socket is left as it is
handshake(ret, closed) ==
    IF ret = "HandshakeAlreadyPerformedError" THEN [pc |-> "io", closed |-> closed]
    ELSE IF ret = "err" THEN [pc |-> "failed", closed |-> closed]
    ELSE [pc |-> "lock", closed |-> closed]

\* conn.Read, conn.Write: c.handshake() up to the return of ServerHandshake; on
\* an error the call returns 0 and the error
Handshake ==
    \E i \in DOMAIN callers :
        /\ callers[i].pc = "call"
        /\ LET r == ServerHandshakeCall(tlsConn, hello, certKind)
               next == handshake(r.ret, sock.closed)
           IN  /\ tlsConn' = r.conn
               /\ callers' = [callers EXCEPT ![i].ret = r.ret,
                                             ![i].pc = next.pc,
                                             ![i].err = (next.pc = "failed")]
               /\ sock' = [sock EXCEPT !.closed = next.closed]
        /\ UNCHANGED <<conn_st, handshakeMutex>>
        /\ UNCHANGED <<connVars, hijackVars, mainVars>>

\* conn.handshake: c.handshakeMutex.Lock()
HandshakeLock ==
    \E i \in DOMAIN callers :
        /\ callers[i].pc = "lock"
        /\ handshakeMutex = 0
        /\ handshakeMutex' = i
        /\ callers' = [callers EXCEPT ![i].pc = "locked"]
        /\ UNCHANGED <<conn_st, tlsConn, sock>>
        /\ UNCHANGED <<connVars, hijackVars, mainVars>>

\* conn.handshake: c.st = st, the deferred Unlock, return nil
StoreState ==
    \E i \in DOMAIN callers :
        /\ callers[i].pc = "locked"
        /\ conn_st' = [val |-> "st", writes |-> conn_st.writes + 1]
        /\ handshakeMutex' = 0
        /\ callers' = [callers EXCEPT ![i].pc = "io"]
        /\ UNCHANGED <<tlsConn, sock>>
        /\ UNCHANGED <<connVars, hijackVars, mainVars>>

\* conn.Read, conn.Write: c.Conn.Read(b), c.Conn.Write(b), returning bytes
ConnIO ==
    \E i \in DOMAIN callers :
        /\ callers[i].pc = "io"
        /\ sock' = [sock EXCEPT !.io = @ + 1]
        /\ callers' = [callers EXCEPT ![i].n = 1, ![i].pc = "returned"]
        /\ UNCHANGED <<conn_st, handshakeMutex, tlsConn>>
        /\ UNCHANGED <<connVars, hijackVars, mainVars>>

\* conn.TLSData: c.handshakeMutex.Lock()
TLSDataLock ==
    \E i \in DOMAIN callers :
        /\ callers[i].pc = "returned"
        /\ handshakeMutex = 0
        /\ handshakeMutex' = i
        /\ callers' = [callers EXCEPT ![i].pc = "TLSData"]
        /\ UNCHANGED <<conn_st, tlsConn, sock>>
        /\ UNCHANGED <<connVars, hijackVars, mainVars>>

\* conn.TLSData: the read of c.st.ClientHello, a nil dereference while c.st is
\* nil, and the deferred Unlock
TLSData ==
    \E i \in DOMAIN callers :
        /\ callers[i].pc = "TLSData"
        /\ callers' = [callers EXCEPT ![i].pc = IF conn_st.val = "nil" THEN "panic" ELSE "done"]
        /\ handshakeMutex' = 0
        /\ UNCHANGED <<conn_st, tlsConn, sock>>
        /\ UNCHANGED <<connVars, hijackVars, mainVars>>

\* the server closes the connection of a call that returned an error
CallerClose ==
    /\ \E i \in DOMAIN callers : callers[i].pc = "failed"
    /\ ~sock.closed
    /\ sock' = [sock EXCEPT !.closed = TRUE]
    /\ UNCHANGED <<callers, conn_st, handshakeMutex, tlsConn>>
    /\ UNCHANGED <<connVars, hijackVars, mainVars>>

NextAdapter ==
    \/ Handshake
    \/ HandshakeLock
    \/ StoreState
    \/ ConnIO
    \/ TLSDataLock
    \/ TLSData
    \/ CallerClose


\* ---------------------------------------------------------------------------
\* The listener and the hijacking handler, over several connections at once
\* ---------------------------------------------------------------------------

\* no connection at the listener
HijackIdle ==
    /\ liveHijackCount = 0
    /\ handlers = <<>>

\* a connection the listener has not accepted yet
handler0 ==
    [pc |-> "listen", hijacked |-> FALSE, old |-> 0, new |-> 0,
     path |-> "none", log |-> <<>>]

\* newUint64 and the connections waiting at the listener
HijackInit ==
    /\ liveHijackCount = 0
    /\ handlers = [i \in 1..MaxHandlers |-> handler0]

\* main before the signal: both servers serve
MainInit ==
    /\ main = [pc |-> "serving", expired |-> FALSE]
    /\ srv = [s \in {"https", "http"} |-> "serving"]

\* what listener.Accept can be given by the listener below it
AcceptOutcomes == {"error", "other", "tls"}

\* listener.Accept: the error of the listener below is passed on; a connection
\* that is not a *tls.Conn is closed and refused; a *tls.Conn is wrapped
accept(outcome) ==
    CASE outcome = "error" -> [pc |-> "acceptError", log |-> <<>>]
      [] outcome = "other" -> [pc |-> "refused", log |-> <<"close">>]
      [] OTHER -> [pc |-> "accepted", log |-> <<>>]

Accept ==
    \E i \in DOMAIN handlers : \E outcome \in AcceptOutcomes :
        /\ main.pc # "exited"
        /\ handlers[i].pc = "listen"
        /\ outcome = "error" \/ srv["https"] = "serving"
        /\ handlers' = [handlers EXCEPT ![i].pc = accept(outcome).pc,
                                        ![i].log = accept(outcome).log]
        /\ UNCHANGED liveHijackCount
        /\ UNCHANGED <<connVars, adapterVars, mainVars>>

\* how the head of hijackHandle can go: the writer is no http.Hijacker, Hijack
\* fails, or the connection is handed over
HijackOutcomes == {"notHijacker", "hijackError", "ok"}

\* hijackHandle up to the call of incrementHijack: without a Hijacker a 500 is
\* written by http.Error and the handler returns; when Hijack fails it returns
Hijack ==
    \E i \in DOMAIN handlers : \E outcome \in HijackOutcomes :
        /\ main.pc # "exited"
        /\ handlers[i].pc = "accepted"
        /\ handlers' =
              [handlers EXCEPT
                 ![i] = CASE outcome = "notHijacker" ->
                               [@ EXCEPT !.pc = "returned",
                                         !.log = Append(@, "500")]
                          [] outcome = "hijackError" ->
                               [@ EXCEPT !.pc = "returned"]
                          [] OTHER ->
                               [@ EXCEPT !.pc = "hijacked", !.hijacked = TRUE]]
        /\ UNCHANGED liveHijackCount
        /\ UNCHANGED <<connVars, adapterVars, mainVars>>

\* the compare-and-swap of incrementHijack: old + 1 is stored if the count is
\* still old
incrementHijack(count, old) ==
    IF count = old THEN [swapped |-> TRUE, count |-> old + 1]
                   ELSE [swapped |-> FALSE, count |-> count]

\* the compare-and-swap of decrementHijack replaced by a plain store
decrementHijackStore(count, old) ==
    [swapped |-> TRUE, count |-> old - 1]

\* the compare-and-swap of decrementHijack: old - 1 is stored if the count is
\* still old; a count below zero stands for the wrapped uint64
decrementHijack(count, old) ==
    IF count = old THEN [swapped |-> TRUE, count |-> old - 1]
                   ELSE [swapped |-> FALSE, count |-> count]

\* incrementHijack: old := atomic.LoadUint64(liveHijackCount)
IncrementLoad ==
    \E i \in DOMAIN handlers :
        /\ main.pc # "exited"
        /\ handlers[i].pc = "hijacked"
        /\ handlers' = [handlers EXCEPT ![i].pc = "incrementLoaded",
                                        ![i].old = liveHijackCount]
        /\ UNCHANGED liveHijackCount
        /\ UNCHANGED <<connVars, adapterVars, mainVars>>

\* incrementHijack: the compare-and-swap; the loop starts over when it fails
IncrementCAS ==
    \E i \in DOMAIN handlers :
        /\ main.pc # "exited"
        /\ handlers[i].pc = "incrementLoaded"
        /\ LET r == incrementHijack(liveHijackCount, handlers[i].old)
           IN  /\ liveHijackCount' = r.count
               /\ handlers' =
                     [handlers EXCEPT
                        ![i].pc = IF r.swapped THEN "running" ELSE "hijacked",
                        ![i].new = IF r.swapped THEN r.count ELSE @]
        /\ UNCHANGED <<connVars, adapterVars, mainVars>>

\* the ways through the body of hijackHandle after the increment
Paths == {"conversion", "panic", "render", "dump", "success"}

\* the body of hijackHandle writing the report before DumpResponse is checked
respondTwiceOnDumpError(path) ==
    CASE path = "panic" -> <<>>
      [] path = "success" -> <<"report">>
      [] path = "dump" -> <<"report", "500">>
      [] OTHER -> <<"500">>

\* what the body of hijackHandle writes on the hijacked connection: hijacked500
\* when the connection is no *conn, when render fails or when DumpResponse
\* fails; nothing when pullClientInfo panics; the report otherwise
respond(path) ==
    CASE path = "panic" -> <<>>
      [] path = "success" -> <<"report">>
      [] OTHER -> <<"500">>

\* the body of hijackHandle, from the type assertion to its return or panic
Serve ==
    \E i \in DOMAIN handlers : \E path \in Paths :
        /\ main.pc # "exited"
        /\ handlers[i].pc = "running"
        /\ handlers' = [handlers EXCEPT ![i].pc = "unwinding",
                                        ![i].path = path,
                                        ![i].log = @ \o respond(path)]
        /\ UNCHANGED liveHijackCount
        /\ UNCHANGED <<connVars, adapterVars, mainVars>>

\* defer c.Close(), the first of the deferred calls to run
DeferClose ==
    \E i \in DOMAIN handlers :
        /\ main.pc # "exited"
        /\ handlers[i].pc = "unwinding"
        /\ handlers' = [handlers EXCEPT ![i].pc = "closed",
                                        ![i].log = Append(@, "close")]
        /\ UNCHANGED liveHijackCount
        /\ UNCHANGED <<connVars, adapterVars, mainVars>>

\* defer decrementHijack(): old := atomic.LoadUint64(liveHijackCount)
DecrementLoad ==
    \E i \in DOMAIN handlers :
        /\ main.pc # "exited"
        /\ handlers[i].pc = "closed"
        /\ handlers' = [handlers EXCEPT ![i].pc = "decrementLoaded",
                                        ![i].old = liveHijackCount]
        /\ UNCHANGED liveHijackCount
        /\ UNCHANGED <<connVars, adapterVars, mainVars>>

\* defer decrementHijack(): the compare-and-swap, after which the handler has
\* returned; the loop starts over when it fails
DecrementCAS ==
    \E i \in DOMAIN handlers :
        /\ main.pc # "exited"
        /\ handlers[i].pc = "decrementLoaded"
        /\ LET r == decrementHijack(liveHijackCount, handlers[i].old)
           IN  /\ liveHijackCount' = r.count
               /\ handlers' =
                     [handlers EXCEPT
                        ![i].pc = IF r.swapped THEN "returned" ELSE "closed"]
        /\ UNCHANGED <<connVars, adapterVars, mainVars>>

NextHijack ==
    \/ Accept
    \/ Hijack
    \/ IncrementLoad
    \/ IncrementCAS
    \/ Serve
    \/ DeferClose
    \/ DecrementLoad
    \/ DecrementCAS

\* ---------------------------------------------------------------------------
\* main from the shutdown signal on
\* ---------------------------------------------------------------------------

\* the connections a server still tracks as active: those whose handler runs
\* and has not hijacked them; the HTTP server's connections are not modelled
Active(s) ==
    IF s = "https"
       THEN {i \in DOMAIN handlers : handlers[i].pc = "accepted"}
       ELSE {}

\* <-stop and context.WithTimeout: the signal arrives, the deadline starts
Signal ==
    /\ main.pc = "serving"
    /\ main' = [main EXCEPT !.pc = "shutdown"]
    /\ UNCHANGED srv
    /\ UNCHANGED <<connVars, adapterVars, hijackVars>>

\* the deadline of the shutdown context passes
DeadlineExceeded ==
    /\ main.pc \in {"shutdown", "polling"}
    /\ ~main.expired
    /\ main' = [main EXCEPT !.expired = TRUE]
    /\ UNCHANGED srv
    /\ UNCHANGED <<connVars, adapterVars, hijackVars>>

\* srv.Shutdown(ctx), first part: the listener is closed
ShutdownBegin ==
    \E s \in DOMAIN srv :
        /\ main.pc = "shutdown"
        /\ srv[s] = "serving"
        /\ srv' = [srv EXCEPT ![s] = "draining"]
        /\ UNCHANGED main
        /\ UNCHANGED <<connVars, adapterVars, hijackVars>>

\* srv.Shutdown(ctx) returns and wg.Done() is called: no connection is active
\* any more, hijacked ones not counted, or the context is done
ShutdownReturn ==
    \E s \in DOMAIN srv :
        /\ srv[s] = "draining"
        /\ Active(s) = {} \/ main.expired
        /\ srv' = [srv EXCEPT ![s] = "shutdown"]
        /\ UNCHANGED main
        /\ UNCHANGED <<connVars, adapterVars, hijackVars>>

\* wg.Wait() returns once both calls of Shutdown have returned
WaitGroupWait ==
    /\ main.pc = "shutdown"
    /\ \A s \in DOMAIN srv : srv[s] = "shutdown"
    /\ main' = [main EXCEPT !.pc = "polling"]
    /\ UNCHANGED srv
    /\ UNCHANGED <<connVars, adapterVars, hijackVars>>

\* the test of main's polling loop: it goes on while the count is not 0 and the
\* context has no error
keepPolling(count, expired) == count # 0 /\ ~expired

\* main's polling loop is left, cancel and Flush are called and main returns
Exit ==
    /\ main.pc = "polling"
    /\ ~keepPolling(liveHijackCount, main.expired)
    /\ main' = [main EXCEPT !.pc = "exited"]
    /\ UNCHANGED srv
    /\ UNCHANGED <<connVars, adapterVars, hijackVars>>

\* the handlers, which run until main returns, and main
NextShutdown ==
    \/ NextHijack
    \/ Signal
    \/ DeadlineExceeded
    \/ ShutdownBegin
    \/ ShutdownReturn
    \/ WaitGroupWait
    \/ Exit
(***************************************************************************)
(* The connection.                                                         *)
(***************************************************************************)
NoReport == [Rating |-> "none"]
NoHello == [vers |-> 0]

conn0 ==
    [vers |-> 0,
     handshakeComplete |-> FALSE,
     clientHello |-> NoHello,
     cipherSuite |-> 0,
     didResume |-> FALSE,
     ableToDetectNMinusOneSplitting |-> FALSE,
     readOneAppDataRecord |-> FALSE,
     nMinusOneRecordSplittingDetected |-> FALSE,
     input |-> 0,
     err |-> FALSE]

\* the case extensionSupportedVersions of clientHelloMsg.unmarshal with the
\* test of the length's parity left out
unmarshalSupportedVersionsAnyParity(data) ==
    IF Len(data) < 1 THEN [ok |-> FALSE, supportedVersions |-> <<>>]
    ELSE LET l == data[1]
         IN  IF Len(data) # l + 1
                THEN [ok |-> FALSE, supportedVersions |-> <<>>]
                ELSE [ok |-> TRUE,
                      supportedVersions |->
                          [i \in 1..(l \div 2) |->
                              ((data[2 * i] * 256) + data[2 * i + 1]) % 65536]]

\* the case extensionSupportedVersions of clientHelloMsg.unmarshal, on the body
\* of one extension: a length byte l, then l / 2 versions of two bytes each
unmarshalSupportedVersions(data) ==
    IF Len(data) < 1 THEN [ok |-> FALSE, supportedVersions |-> <<>>]
    ELSE LET l == data[1]
         IN  IF l % 2 = 1 \/ Len(data) # l + 1
                THEN [ok |-> FALSE, supportedVersions |-> <<>>]
                ELSE [ok |-> TRUE,
                      supportedVersions |->
                          [i \in 1..(l \div 2) |->
                              ((data[2 * i] * 256) + data[2 * i + 1]) % 65536]]

\* the loop of clientHelloMsg.unmarshal over the extensions, here those of type
\* 43: false at the first body that is refused, else the versions appended
RECURSIVE unmarshal(_, _)
unmarshal(m, exts) ==
    IF exts = <<>> THEN [ok |-> TRUE, m |-> m]
    ELSE LET r == unmarshalSupportedVersions(Head(exts))
         IN  IF ~r.ok THEN [ok |-> FALSE, m |-> m]
             ELSE unmarshal([m EXCEPT !.supportedVersions = @ \o r.supportedVersions],
                            Tail(exts))

\* Conn.readHandshake on the ClientHello: the message is unmarshalled; a message
\* that does not unmarshal is answered with a fatal alert
Unmarshal ==
    /\ pc = "unmarshal"
    /\ LET r == unmarshal(hello, ext)
       IN  IF r.ok
              THEN /\ hello' = r.m
                   /\ pc' = "start"
                   /\ c' = c
              ELSE /\ hello' = hello
                   /\ pc' = "closed"
                   /\ c' = [c EXCEPT !.err = TRUE]
    /\ ext' = <<>>
    /\ UNCHANGED <<certKind, wire, received, d>>
    /\ UNCHANGED <<adapterVars, hijackVars, mainVars>>

\* Conn.serverHandshake, the ClientHello accepted: the negotiation's results and
\* the ClientHello are kept on the connection
ServerHandshake ==
    /\ pc = "start"
    /\ LET r == readClientHello(hello, certKind)
       IN  /\ r.ok
           /\ c' = [c EXCEPT !.vers = r.vers,
                             !.cipherSuite = r.suite,
                             !.didResume = r.isResume,
                             !.ableToDetectNMinusOneSplitting =
                                 r.ableToDetectNMinusOneSplitting,
                             !.clientHello = hello,
                             !.handshakeComplete = TRUE]
    /\ pc' = "established"
    /\ UNCHANGED <<certKind, hello, wire, received, d>>
    /\ UNCHANGED <<ext, adapterVars, hijackVars, mainVars>>

\* Conn.serverHandshake, the ClientHello refused (version, compression, no suite):
\* a fatal alert, and the connection is dropped without a response
HandshakeFailure ==
    /\ pc = "start"
    /\ ~readClientHello(hello, certKind).ok
    /\ pc' = "closed"
    /\ UNCHANGED <<certKind, hello, wire, received, c, d>>
    /\ UNCHANGED <<ext, adapterVars, hijackVars, mainVars>>

\* probe without the test that no record has been measured yet
probeEveryRecord(conn, want, len) ==
    IF /\ conn.ableToDetectNMinusOneSplitting
       /\ want = "application_data"
       THEN [conn EXCEPT !.readOneAppDataRecord = TRUE,
                         !.nMinusOneRecordSplittingDetected = (len = 1 \/ len = 0)]
       ELSE conn

\* probe with the test for a record of one byte only
probeOneByteOnly(conn, want, len) ==
    IF /\ ~conn.readOneAppDataRecord
       /\ conn.ableToDetectNMinusOneSplitting
       /\ want = "application_data"
       THEN [conn EXCEPT !.readOneAppDataRecord = TRUE,
                         !.nMinusOneRecordSplittingDetected = (len = 1)]
       ELSE conn

\* the probe added to Conn.readRecord, for a record of len bytes read by a call
\* that wants record type want
probe(conn, want, len) ==
    IF /\ ~conn.readOneAppDataRecord
       /\ conn.ableToDetectNMinusOneSplitting
       /\ want = "application_data"
       THEN [conn EXCEPT !.readOneAppDataRecord = TRUE,
                         !.nMinusOneRecordSplittingDetected = (len = 1 \/ len = 0)]
       ELSE conn

\* Conn.readRecord(recordTypeApplicationData) on the next record of the wire,
\* while the server is still reading the request
ReadRecord ==
    /\ pc = "established"
    /\ ~c.err
    /\ c.input < ReqLen
    /\ wire # <<>>
    /\ LET rec == Head(wire)
           probed == probe(c, "application_data", rec.len)
       IN  c' = CASE rec.typ = "application_data" ->
                       [probed EXCEPT !.input = @ + rec.len]
                  [] rec.typ = "alert" /\ rec.warning -> probed
                  [] OTHER -> [probed EXCEPT !.err = TRUE]
    /\ wire' = Tail(wire)
    /\ received' = Append(received, Head(wire))
    /\ UNCHANGED <<certKind, hello, pc, d>>
    /\ UNCHANGED <<ext, adapterVars, hijackVars, mainVars>>

\* hijackHandle, once the request is read: the report is computed and written
HijackHandle ==
    /\ pc = "established"
    /\ ~c.err
    /\ c.input >= ReqLen
    /\ d' = pullClientInfo(ConnectionState(c))
    /\ pc' = "responded"
    /\ UNCHANGED <<certKind, hello, wire, received, c>>
    /\ UNCHANGED <<ext, adapterVars, hijackVars, mainVars>>

\* the read of the request fails (alert, unexpected record) or times out
ReadFailure ==
    /\ pc = "established"
    /\ c.err \/ (wire = <<>> /\ c.input < ReqLen)
    /\ pc' = "closed"
    /\ UNCHANGED <<certKind, hello, wire, received, c, d>>
    /\ UNCHANGED <<ext, adapterVars, hijackVars, mainVars>>

\* pullClientInfo called on a connection as it is, whatever its state
PullClientInfo ==
    /\ pc = "snapshot"
    /\ d' = pullClientInfo(ConnectionState(c))
    /\ pc' = IF d' = Panic THEN "panic" ELSE "classified"
    /\ UNCHANGED <<certKind, hello, wire, received, c>>
    /\ UNCHANGED <<ext, adapterVars, hijackVars, mainVars>>

\* the classifier on its own
NextClassify == PullClientInfo

\* defer c.Close() of hijackHandle
Close ==
    /\ pc = "responded"
    /\ pc' = "closed"
    /\ UNCHANGED <<certKind, hello, wire, received, c, d>>
    /\ UNCHANGED <<ext, adapterVars, hijackVars, mainVars>>

Next ==
    \/ ServerHandshake
    \/ HandshakeFailure
    \/ ReadRecord
    \/ HijackHandle
    \/ ReadFailure
    \/ Close

\* a connection from the ClientHello's bytes on
NextUnmarshal ==
    \/ Unmarshal
    \/ Next

(***************************************************************************)
(* Clients.  A ClientHello is any list of suite codes, versions and        *)
(* compression methods; the specifications below draw them from pools.     *)
(***************************************************************************)
RECURSIVE SeqsUpTo(_, _)
SeqsUpTo(S, n) ==
    IF n = 0 THEN {<<>>}
    ELSE LET shorter == SeqsUpTo(S, n - 1)
         IN  shorter \cup {Append(s, x) : s \in {t \in shorter : Len(t) = n - 1}, x \in S}

AppData(len) == [typ |-> "application_data", len |-> len, warning |-> FALSE]
WarningAlert == [typ |-> "alert", len |-> 2, warning |-> TRUE]
CloseNotify == [typ |-> "alert", len |-> 2, warning |-> FALSE]
HandshakeRecord == [typ |-> "handshake", len |-> 1, warning |-> FALSE]

Records == {AppData(n) : n \in 0..ReqLen} \cup {WarningAlert, CloseNotify, HandshakeRecord}

\* a plain request, a request after a 1-byte and after an empty record, a client
\* that closes, and a client that sends nothing
FewWires ==
    {<<AppData(ReqLen)>>, <<AppData(1), AppData(ReqLen)>>,
     <<AppData(0), AppData(ReqLen)>>, <<CloseNotify>>, <<>>}

ClientHello(vers, suites, comps, ticket, versions) ==
    [vers |-> vers, cipherSuites |-> suites, compressionMethods |-> comps,
     ticketSupported |-> ticket, sessionTicket |-> NoTicket,
     supportedVersions |-> versions]

\* the connection as accepted, nothing read yet
ConnInit ==
    /\ c = conn0
    /\ received = <<>>
    /\ pc = "start"
    /\ d = NoReport

\* one connection served by the HTTP server alone
InitConn ==
    /\ ConnInit
    /\ ext = <<>>
    /\ callers = <<>>
    /\ AdapterInit
    /\ HijackIdle
    /\ MainInit

(***************************************************************************)
(* Specifications: the same connection, under different families of        *)
(* clients.                                                                *)
(***************************************************************************)
\* 3DES suites, a modern suite, the two signalling codes, a TLS 1.3 suite, an
\* unknown code and a legacy NSS code
Sweet32Pool == {\h000A, \hC012, \hC02F, \h00FF, \h0A0A, \h1301, \hFAFA, \hFEFF}

InitSweet32 ==
    /\ InitConn
    /\ certKind = "RSA"
    /\ hello \in {ClientHello(v, s, <<0>>, TRUE, <<>>) :
                    v \in {VersionTLS10, VersionTLS12},
                    s \in SeqsUpTo(Sweet32Pool, MaxSuites)}
    /\ wire \in FewWires

SpecSweet32 == InitSweet32 /\ [][Next]_vars

\* suites of every policy set, CBC and RSA key exchange suites, the legacy NSS
\* codes, an unknown code and a suite with no finding
ReasonsPool == {\h0001, \h0003, \h0017, \h001B, \h002F, \hC013, \hFEFE, \hFAFA, \hC02F}

InitReasons ==
    /\ InitConn
    /\ certKind = "RSA"
    /\ hello \in {ClientHello(v, s, <<0>>, TRUE, <<>>) :
                    v \in {VersionTLS10, VersionTLS12},
                    s \in SeqsUpTo(ReasonsPool, MaxSuites)}
    /\ wire \in FewWires

SpecReasons == InitReasons /\ [][Next]_vars

\* clients that differ in everything the rating reads
RatingPool == {\h009C, \hC02F, \h002F, \hC013, \h0005, \hFAFA}
RatingVersions == {versionTLS13, \h7A7A}

InitRating ==
    /\ InitConn
    /\ certKind = "RSA"
    /\ hello \in {ClientHello(v, s, cm, t, sv) :
                    v \in {VersionTLS10, VersionTLS11, VersionTLS12},
                    s \in SeqsUpTo(RatingPool, MaxRatingSuites) \cup {<<\h1301, \hC02B, \hC02F>>},
                    cm \in {<<0>>, <<1, 0>>},
                    t \in BOOLEAN,
                    sv \in SeqsUpTo(RatingVersions, MaxVersions)}
    /\ wire \in {<<AppData(ReqLen)>>, <<AppData(1), AppData(ReqLen)>>, <<CloseNotify>>}

SpecRating == InitRating /\ [][Next]_vars

\* clients to which one more finding is added
MonotonePool == {\h009C, \hC02F, \h002F, \hFAFA}

InitMonotone ==
    /\ InitConn
    /\ certKind = "RSA"
    /\ hello \in {ClientHello(v, s, <<0>>, t, sv) :
                    v \in {VersionTLS10, VersionTLS12},
                    s \in SeqsUpTo(MonotonePool, MaxRatingSuites),
                    t \in BOOLEAN,
                    sv \in {<<>>, <<versionTLS13>>}}
    /\ wire \in {<<AppData(ReqLen)>>, <<AppData(1), AppData(ReqLen)>>, <<CloseNotify>>}

SpecMonotone == InitMonotone /\ [][Next]_vars

\* clients that differ in the versions they offer
VersionPool ==
    {VersionTLS11, VersionTLS12, versionTLS13, versionTLS13Draft18, \h7F13, \h7A7A}

InitVersions ==
    /\ InitConn
    /\ certKind = "RSA"
    /\ hello \in {ClientHello(v, s, <<0>>, TRUE, sv) :
                    v \in {\h0200, VersionSSL30, VersionTLS10, VersionTLS11,
                           VersionTLS12, versionTLS13},
                    s \in {<<\hC02F, \hC013>>, <<\h1301, \hC02B, \hC02F>>},
                    sv \in SeqsUpTo(VersionPool, MaxVersions)}
    /\ wire \in {<<AppData(ReqLen)>>, <<CloseNotify>>, <<>>}

SpecVersions == InitVersions /\ [][Next]_vars

\* clients at every version, offering CBC suites or none, sending any records
BeastPool == {TLS_RSA_WITH_AES_128_CBC_SHA, \hC013, \hC009, \hC02F}

InitBeast ==
    /\ InitConn
    /\ certKind \in {"RSA", "ECDSA"}
    /\ hello \in {ClientHello(v, s, <<0>>, TRUE, <<>>) :
                    v \in {VersionSSL30, VersionTLS10, VersionTLS11, VersionTLS12},
                    s \in SeqsUpTo(BeastPool, MaxBeastSuites)}
    /\ wire \in SeqsUpTo(Records, MaxRecords)

SpecBeast == InitBeast /\ [][Next]_vars

\* codes of no catalogue, with and without leading zero digits, beside a legacy
\* NSS code and catalogued suites
UnknownPool == {\h0B0B, \h0100, \hFAFA, \hFEFE, \hC02F, \h002F}

InitUnknown ==
    /\ InitConn
    /\ certKind = "RSA"
    /\ hello \in {ClientHello(v, s, <<0>>, TRUE, <<>>) :
                    v \in {VersionTLS10, VersionTLS12},
                    s \in SeqsUpTo(UnknownPool, MaxSuites)}
    /\ wire \in {<<AppData(ReqLen)>>, <<CloseNotify>>, <<>>}

SpecUnknown == InitUnknown /\ [][Next]_vars

\* clients that offer the three RSA CBC suites of the probe in any order, beside
\* suites the server prefers
ArmingPool ==
    {TLS_RSA_WITH_AES_128_CBC_SHA, TLS_RSA_WITH_AES_256_CBC_SHA,
     TLS_RSA_WITH_AES_128_CBC_SHA256, \hC013, \hC02F}

InitArming ==
    /\ InitConn
    /\ certKind \in {"RSA", "ECDSA"}
    /\ hello \in {ClientHello(v, s, <<0>>, TRUE, <<>>) :
                    v \in {VersionSSL30, VersionTLS10, VersionTLS11, VersionTLS12},
                    s \in SeqsUpTo(ArmingPool, MaxBeastSuites)}
    /\ wire \in {<<AppData(ReqLen)>>, <<AppData(1), AppData(ReqLen)>>, <<CloseNotify>>}

SpecArming == InitArming /\ [][Next]_vars

\* goroutines that share one connection, each in a Read or a Write, of a client
\* whose ClientHello the server accepts or refuses
InitAdapter ==
    /\ ConnInit
    /\ ext = <<>>
    /\ AdapterInit
    /\ HijackIdle
    /\ MainInit
    /\ certKind = "RSA"
    /\ hello \in {ClientHello(VersionTLS12, s, <<0>>, TRUE, <<>>) :
                    s \in {<<\hC02F>>, <<\hFAFA>>}}
    /\ wire = <<>>
    /\ callers \in UNION {[1..n -> {caller0("Read"), caller0("Write")}] : n \in 1..MaxCallers}

SpecAdapter == InitAdapter /\ [][NextAdapter]_vars

\* clients that present no ticket or a ticket of an earlier session
ResumptionPool == {TLS_RSA_WITH_AES_128_CBC_SHA, \hC02F, \hC013}
Tickets ==
    {NoTicket} \cup {SessionState(v, s) : v \in {VersionTLS10, VersionTLS12},
                                         s \in {TLS_RSA_WITH_AES_128_CBC_SHA, \hC013, \hC02F}}

InitResumption ==
    /\ InitConn
    /\ certKind = "RSA"
    /\ hello \in {[ClientHello(v, s, <<0>>, TRUE, <<>>) EXCEPT !.sessionTicket = t] :
                    v \in {VersionSSL30, VersionTLS10, VersionTLS11, VersionTLS12},
                    s \in SeqsUpTo(ResumptionPool, MaxBeastSuites),
                    t \in Tickets}
    /\ wire \in {<<AppData(ReqLen)>>, <<AppData(1), AppData(ReqLen)>>, <<CloseNotify>>}

SpecResumption == InitResumption /\ [][Next]_vars

\* bytes of extension bodies: lengths even and odd, and the bytes of versions
BodyBytes == {0, 1, 2, 3, 4}

\* ClientHellos still to be unmarshalled, without the extension or with any body
\* of it; one client of each kind of failure after it
InitUnmarshal ==
    /\ c = conn0
    /\ received = <<>>
    /\ d = NoReport
    /\ pc = "unmarshal"
    /\ callers = <<>>
    /\ AdapterInit
    /\ HijackIdle
    /\ MainInit
    /\ certKind = "RSA"
    /\ \/ /\ hello = ClientHello(VersionTLS12, <<\hC02F>>, <<0>>, TRUE, <<>>)
          /\ wire = <<AppData(ReqLen)>>
          /\ ext \in {<<>>} \cup {<<b>> : b \in SeqsUpTo(BodyBytes, MaxBody)}
       \/ /\ hello \in {ClientHello(v, <<\hC02F>>, <<0>>, TRUE, <<>>) :
                          v \in {\h0200, VersionTLS12}}
          /\ wire \in {<<CloseNotify>>, <<AppData(ReqLen)>>}
          /\ ext \in {<<>>, <<<<2, 3, 4>>>>, <<<<4, 3, 3, 3, 4>>>>}

SpecUnmarshal == InitUnmarshal /\ [][NextUnmarshal]_vars

\* the listener with its connections, and no connection being classified
InitHijack ==
    /\ ConnInit
    /\ ext = <<>>
    /\ certKind = "RSA"
    /\ hello = ClientHello(VersionTLS12, <<\hC02F>>, <<0>>, TRUE, <<>>)
    /\ wire = <<>>
    /\ callers = <<>>
    /\ AdapterInit
    /\ HijackInit
    /\ MainInit

SpecHijack == InitHijack /\ [][NextHijack]_vars

\* the listener with its connections and main waiting for the signal
InitShutdown ==
    /\ ConnInit
    /\ ext = <<>>
    /\ certKind = "RSA"
    /\ hello = ClientHello(VersionTLS12, <<\hC02F>>, <<0>>, TRUE, <<>>)
    /\ wire = <<>>
    /\ callers = <<>>
    /\ AdapterInit
    /\ HijackInit
    /\ MainInit

SpecShutdown == InitShutdown /\ [][NextShutdown]_vars

\* suites of the catalogue, unknown codes and a legacy NSS code
ClassifyPool == {\hC02F, \h002F, \h0B0B, \hFAFA, \hFEFF}

\* negotiated versions, recognised or not
ClassifyVersions == {VersionSSL30, VersionTLS10, VersionTLS12, \h0200, \h0305}

\* connections of every kind handed to the classifier: handshake complete or
\* not, any version code, any offered codes
InitClassify ==
    /\ certKind = "RSA"
    /\ wire = <<>>
    /\ received = <<>>
    /\ ext = <<>>
    /\ d = NoReport
    /\ pc = "snapshot"
    /\ callers = <<>>
    /\ AdapterInit
    /\ HijackIdle
    /\ MainInit
    /\ hello \in {ClientHello(v, s, <<0>>, TRUE, sv) :
                    v \in ClassifyVersions,
                    s \in SeqsUpTo(ClassifyPool, MaxSuites),
                    sv \in {<<>>, <<\h7A7A>>, <<versionTLS13>>}}
    /\ c \in {[conn0 EXCEPT !.handshakeComplete = hc,
                            !.vers = hello.vers,
                            !.clientHello = hello,
                            !.input = ReqLen] : hc \in BOOLEAN}

SpecClassify == InitClassify /\ [][NextClassify]_vars
(***************************************************************************)
(* Properties.  A report is in d once hijackHandle has run; offered is the *)
(* suite list the client sent.                                             *)
(***************************************************************************)
Reported == d # NoReport

offered == hello.cipherSuites

Known(ci) == ci \in DOMAIN allCipherSuites

\* the name a suite code is reported under
DisplayName(ci) ==
    IF Known(ci) THEN allCipherSuites[ci]
    ELSE IF ci \in DOMAIN weirdNSSSuites THEN weirdNSSSuites[ci]
    ELSE unknownName(ci)

\* the reasons a report's map holds for a name (none when the name is no key)
Reasons(m, name) == IF name \in DOMAIN m THEN Range(m[name]) ELSE {}

Count(seq, x) == Cardinality({i \in DOMAIN seq : seq[i] = x})

IsSweet32(ci) == Known(ci) /\ allCipherSuites[ci] \in sweet32CipherSuites

NotMetaNotTLS13(ci) == ci \notin metaCipherSuites /\ ci \notin tls13Suites

\* C1 as stated: a Sweet32 suite followed anywhere later by a suite that is
\* neither Meta nor TLS 1.3-only has sweet32Reason among its broken reasons.
C1_AsStated ==
    Reported =>
        \A i \in DOMAIN offered : \A j \in DOMAIN offered :
            (i < j /\ IsSweet32(offered[i]) /\ NotMetaNotTLS13(offered[j]))
                => sweet32Reason \in Reasons(d.BrokenCipherSuites, DisplayName(offered[i]))

\* C1, amended: a Sweet32 suite followed anywhere later by a suite of the
\* catalogue that is not itself a Sweet32 suite and is neither Meta nor TLS
\* 1.3-only has sweet32Reason among its broken reasons.
C1_Sweet32Follower ==
    Reported =>
        \A i \in DOMAIN offered : \A j \in DOMAIN offered :
            (/\ i < j
             /\ IsSweet32(offered[i])
             /\ Known(offered[j]) /\ ~IsSweet32(offered[j])
             /\ NotMetaNotTLS13(offered[j]))
                => sweet32Reason \in Reasons(d.BrokenCipherSuites, DisplayName(offered[i]))

\* a 3DES suite, a signalling code and then a modern suite were offered, and
\* the 3DES suite is reported broken by Sweet32
C1_Witness ==
    /\ Reported
    /\ offered = <<\h000A, \h00FF, \hC02F>>
    /\ sweet32Reason \in Reasons(d.BrokenCipherSuites, "TLS_RSA_WITH_3DES_EDE_CBC_SHA")

\* the occurrences of a name in the offered list that have a later suite which
\* is neither Meta nor TLS 1.3-only
FollowedOccurrences(name) ==
    {i \in DOMAIN offered :
        /\ DisplayName(offered[i]) = name
        /\ \E j \in DOMAIN offered : i < j /\ NotMetaNotTLS13(offered[j])}

\* C8: a Sweet32 suite with no later suite other than Meta and TLS 1.3-only
\* ones never receives sweet32Reason, and the names still pending at the end of
\* the loop are not flushed: a name holds at most one sweet32Reason for each of
\* its occurrences that has such a later suite, so none when it has none.
C8_Sweet32Trailing ==
    Reported =>
        \A i \in DOMAIN offered :
            IsSweet32(offered[i]) =>
                LET name == DisplayName(offered[i])
                    got == IF name \in DOMAIN d.BrokenCipherSuites
                              THEN Count(d.BrokenCipherSuites[name], sweet32Reason) ELSE 0
                IN  got <= Cardinality(FollowedOccurrences(name))

\* a 3DES suite followed only by a signalling code or a TLS 1.3 suite was
\* offered after a modern suite, and it holds no sweet32Reason
C8_Witness ==
    /\ Reported
    /\ \E i \in DOMAIN offered :
          /\ IsSweet32(offered[i])
          /\ i > 1 /\ i < Len(offered)
          /\ \A j \in DOMAIN offered : j > i => ~NotMetaNotTLS13(offered[j])
          /\ \A k \in DOMAIN offered : IsSweet32(offered[k]) => k = i
          /\ sweet32Reason \notin Reasons(d.BrokenCipherSuites, DisplayName(offered[i]))

NameHasCBC(ci) == Contains(DisplayName(ci), strCBC)

NameBeginsTLSRSAWITH(ci) == HasPrefixAt(Bytes[DisplayName(ci)], strTLSRSAWITH, 1)

Named(ci) == Known(ci) \/ ci \in DOMAIN weirdNSSSuites

\* C5 as stated: every offered suite whose display name contains "_CBC" has
\* cbcReason among its weak reasons and every one whose name begins
\* "TLS_RSA_WITH" has noEphemeralReason, the legacy SSL_RSA_FIPS names included.
C5_AsStated ==
    Reported =>
        \A i \in DOMAIN offered :
            Named(offered[i]) =>
                /\ NameHasCBC(offered[i]) =>
                      cbcReason \in Reasons(d.WeakCipherSuites, DisplayName(offered[i]))
                /\ NameBeginsTLSRSAWITH(offered[i]) =>
                      noEphemeralReason \in Reasons(d.WeakCipherSuites, DisplayName(offered[i]))

\* C5, amended: every offered suite of the catalogue whose name contains "_CBC"
\* has cbcReason among its weak reasons and every one whose name begins
\* "TLS_RSA_WITH" has noEphemeralReason; the legacy SSL_RSA_FIPS names of the
\* codes 0xFEFE and 0xFEFF get no weak reason at all.
C5_WeakReasons ==
    Reported =>
        \A i \in DOMAIN offered :
            /\ Known(offered[i]) =>
                  /\ NameHasCBC(offered[i]) =>
                        cbcReason \in Reasons(d.WeakCipherSuites, DisplayName(offered[i]))
                  /\ NameBeginsTLSRSAWITH(offered[i]) =>
                        noEphemeralReason
                            \in Reasons(d.WeakCipherSuites, DisplayName(offered[i]))
            /\ offered[i] \in DOMAIN weirdNSSSuites =>
                  DisplayName(offered[i]) \notin DOMAIN d.WeakCipherSuites

\* an RSA CBC suite and a legacy NSS code were offered: the first holds both
\* weak reasons, the second none
C5_Witness ==
    /\ Reported
    /\ \h002F \in Range(offered) /\ \hFEFE \in Range(offered)
    /\ Reasons(d.WeakCipherSuites, "TLS_RSA_WITH_AES_128_CBC_SHA")
          = {cbcReason, noEphemeralReason}
    /\ "SSL_RSA_FIPS_WITH_DES_CBC_SHA" \notin DOMAIN d.WeakCipherSuites

\* C9: supported_cipher_suites has the length of the offered list and its i-th
\* element is the display name, or the unknown-suite placeholder, of the i-th
\* offered code, duplicates included.
C9_SuiteOrder ==
    Reported =>
        /\ Len(d.SupportedCipherSuites) = Len(offered)
        /\ \A i \in DOMAIN offered : d.SupportedCipherSuites[i] = DisplayName(offered[i])

\* a list with a code offered twice, an unknown code between, is reported in
\* full and in order
C9_Witness ==
    /\ Reported
    /\ offered = <<\hC02F, \hFAFA, \hC02F>>
    /\ d.SupportedCipherSuites =
          <<"TLS_ECDHE_RSA_WITH_AES_128_GCM_SHA256", "An unknown cipher suite: 0xfafa",
            "TLS_ECDHE_RSA_WITH_AES_128_GCM_SHA256">>

\* C10: every offered suite of the sets fewBit, null, nullAuth and rc4 has the
\* set's reason among its broken reasons, and the codes 0xFEFE and 0xFEFF have
\* fewBitReason under their SSL_RSA_FIPS names.
C10_BrokenReasons ==
    Reported =>
        \A i \in DOMAIN offered :
            LET name == DisplayName(offered[i])
                got == Reasons(d.BrokenCipherSuites, name)
            IN  /\ Known(offered[i]) =>
                      /\ name \in fewBitCipherSuites => fewBitReason \in got
                      /\ name \in nullCipherSuites => nullReason \in got
                      /\ name \in nullAuthCipherSuites => nullAuthReason \in got
                      /\ name \in rc4CipherSuites => rc4Reason \in got
                /\ offered[i] \in DOMAIN weirdNSSSuites => fewBitReason \in got

\* an export RC4 suite with anonymous key exchange and a legacy NSS code were
\* offered: the first holds three broken reasons, the second fewBitReason
C10_Witness ==
    /\ Reported
    /\ \h0017 \in Range(offered) /\ \hFEFE \in Range(offered)
    /\ Reasons(d.BrokenCipherSuites, "TLS_DH_anon_EXPORT_WITH_RC4_40_MD5")
          = {fewBitReason, nullAuthReason, rc4Reason}
    /\ Reasons(d.BrokenCipherSuites, "SSL_RSA_FIPS_WITH_DES_CBC_SHA") = {fewBitReason}

Max(S) == CHOOSE x \in S : \A y \in S : y <= x

Min(S) == CHOOSE x \in S : \A y \in S : x <= y

\* the length of the first application-data record the server has read
FirstAppDataLen ==
    received[Min({i \in DOMAIN received : received[i].typ = "application_data"})].len

OffersCBC == \E i \in DOMAIN offered : Known(offered[i]) /\ NameHasCBC(offered[i])

NoEphemeralOffered ==
    ~\E i \in DOMAIN offered :
        Known(offered[i]) /\ Contains(allCipherSuites[offered[i]], strDHE)

CompressionOffered == \E i \in DOMAIN hello.compressionMethods : hello.compressionMethods[i] # 0

UnknownOffered == \E i \in DOMAIN offered : ~Named(offered[i])

\* the greatest of the negotiated version and the recognised supported_versions
UpgradedVersion ==
    Max({c.vers} \cup (Range(hello.supportedVersions) \cap DOMAIN actualSupportedVersions))

OtherBadFinding ==
    \/ CompressionOffered
    \/ UnknownOffered
    \/ d.BEASTVuln
    \/ DOMAIN d.BrokenCipherSuites # {}

\* the first end-to-end scenario of the specification
ModernClient ==
    /\ offered = <<\h1301, \hC02B, \hC02F>>
    /\ hello.supportedVersions = <<versionTLS13>>
    /\ hello.compressionMethods = <<0>>
    /\ c.vers = VersionTLS12

\* C3 as stated: with no ephemeral suite offered, a negotiated version of
\* TLS 1.2 or no session tickets the rating is not 'excellent', and is 'not bad'
\* with score 5 unless a 'bad' condition holds; the modern client that
\* negotiates TLS 1.2 is rated 'not bad'.
C3_AsStated ==
    Reported =>
        /\ (NoEphemeralOffered \/ c.vers = VersionTLS12 \/ ~hello.ticketSupported) =>
              /\ d.Rating # good
              /\ ~(OtherBadFinding \/ c.vers <= VersionTLS11) =>
                    (d.Rating = improvable /\ d.RatingScore = improvable_score)
        /\ ModernClient =>
              /\ d.Rating = improvable
              /\ d.TLSVersion = "TLS 1.3"
              /\ d.EphemeralKeysSupported
              /\ DOMAIN d.BrokenCipherSuites = {}

\* C3, amended: with no ephemeral suite offered, a version of TLS 1.2 after the
\* upgrade through supported_versions, or no session tickets, the rating is not
\* 'excellent', and is 'not bad' with score 5 unless a 'bad' condition holds; the
\* modern client that negotiates TLS 1.2 and offers TLS 1.3 is reported with
\* tls_version 'TLS 1.3', ephemeral keys and no broken suite, and is rated
\* 'not bad' without session tickets and 'excellent' with them.
C3_NotBad ==
    Reported =>
        /\ (NoEphemeralOffered \/ UpgradedVersion = VersionTLS12 \/ ~hello.ticketSupported) =>
              /\ d.Rating # good
              /\ ~(OtherBadFinding \/ UpgradedVersion <= VersionTLS11) =>
                    (d.Rating = improvable /\ d.RatingScore = improvable_score)
        /\ ModernClient =>
              /\ d.Rating = IF hello.ticketSupported THEN good ELSE improvable
              /\ d.TLSVersion = "TLS 1.3"
              /\ d.EphemeralKeysSupported
              /\ DOMAIN d.BrokenCipherSuites = {}

\* a client with ephemeral suites and session tickets whose version stays
\* TLS 1.2 is rated 'not bad'
C3_Witness ==
    /\ Reported
    /\ ~NoEphemeralOffered /\ hello.ticketSupported
    /\ UpgradedVersion = VersionTLS12
    /\ d.Rating = improvable /\ d.RatingScore = improvable_score

\* C4 as stated: the rating is 'bad' with score 0 whenever compression or an
\* unknown suite was offered, beast_vuln is true, a suite is broken or the
\* negotiated version is TLS 1.1 or less, and it is not 'bad' otherwise.
C4_AsStated ==
    Reported =>
        IF OtherBadFinding \/ c.vers <= VersionTLS11
           THEN d.Rating = bad /\ d.RatingScore = bad_score
           ELSE d.Rating # bad

\* C4, amended: the rating is 'bad' with score 0 whenever compression or an
\* unknown suite was offered, beast_vuln is true, a suite is broken or the
\* version after the upgrade through supported_versions is TLS 1.1 or less,
\* whether or not a 'not bad' condition holds, and it is not 'bad' otherwise.
C4_Bad ==
    Reported =>
        IF OtherBadFinding \/ UpgradedVersion <= VersionTLS11
           THEN d.Rating = bad /\ d.RatingScore = bad_score
           ELSE d.Rating # bad

\* a TLS 1.2 client without session tickets whose only bad finding is a
\* compression method is rated 'bad'
C4_Witness ==
    /\ Reported
    /\ CompressionOffered
    /\ ~UnknownOffered /\ ~d.BEASTVuln /\ DOMAIN d.BrokenCipherSuites = {}
    /\ UpgradedVersion > VersionTLS11
    /\ ~hello.ticketSupported
    /\ d.Rating = bad /\ d.RatingScore = bad_score

\* the name a version code is reported under
VersionDisplay(v) ==
    IF v \in DOMAIN actualSupportedVersions
       THEN actualSupportedVersions[v] ELSE "an unknown version of SSL/TLS"

GreaterOffered == {v \in Range(hello.supportedVersions) : v > c.vers}

\* C6 as stated: when supported_versions holds a value greater than the
\* negotiated version, tls_version is the display name of the higher value.
C6_AsStated ==
    (Reported /\ GreaterOffered # {}) => d.TLSVersion = VersionDisplay(Max(GreaterOffered))

\* C6, amended: when supported_versions holds a recognised value greater than
\* the negotiated version, tls_version is the display name of the greatest such
\* value; values that are not recognised are passed over, and with no
\* recognised greater value tls_version is the negotiated version's name.
C6_VersionUpgrade ==
    Reported =>
        LET recognised == GreaterOffered \cap DOMAIN actualSupportedVersions
        IN  d.TLSVersion = IF recognised # {} THEN VersionDisplay(Max(recognised))
                           ELSE VersionDisplay(c.vers)

\* a client that negotiated TLS 1.2 and offered a GREASE value and TLS 1.3 is
\* reported as TLS 1.3
C6_Witness ==
    /\ Reported
    /\ c.vers = VersionTLS12
    /\ hello.supportedVersions = <<\h7A7A, versionTLS13>>
    /\ d.TLSVersion = "TLS 1.3"

InsertAt(seq, k, x) == SubSeq(seq, 1, k) \o <<x>> \o SubSeq(seq, k + 1, Len(seq))

\* the snapshot of the connection with one more suite offered at position k + 1
ExtraSuite(k, ci) ==
    [ConnectionState(c) EXCEPT !.ClientCipherSuites = InsertAt(@, k, ci)]

\* the snapshot with one more compression method, not null, at position k + 1
ExtraCompression(k) ==
    [ConnectionState(c) EXCEPT !.CompressionMethods = InsertAt(@, k, 1)]

\* the snapshot with no record splitting observed
NoSplittingObserved ==
    [ConnectionState(c) EXCEPT !.NMinusOneRecordSplittingDetected = FALSE]

UnknownPlaceholder ==
    (\h0B0B :> "An unknown cipher suite: 0x0b0b")
        @@ (\h0100 :> "An unknown cipher suite: 0x0100")
        @@ (\hFAFA :> "An unknown cipher suite: 0xfafa")

\* C11: every offered code that is neither in the catalogue nor a legacy NSS
\* code sets unknown_cipher_suite_supported and is listed as 'An unknown cipher
\* suite: 0xHHHH', in lowercase hex padded with zeros to four digits; the flag
\* is false when no such code is offered; a request that was read always gets
\* its report, whatever codes were offered.
C11_UnknownSuite ==
    /\ Reported =>
          /\ d.UnknownCipherSuiteSupported = (\E i \in DOMAIN offered : ~Named(offered[i]))
          /\ \A i \in DOMAIN offered :
                ~Named(offered[i]) =>
                    /\ offered[i] \in DOMAIN UnknownPlaceholder
                    /\ d.SupportedCipherSuites[i] = UnknownPlaceholder[offered[i]]
    /\ pc = "responded" => Reported

\* a client that offered the code 0x0b0b after a catalogued suite is reported
\* with the flag set and the padded placeholder
C11_Witness ==
    /\ Reported
    /\ offered = <<\hC02F, \h0B0B>>
    /\ d.UnknownCipherSuiteSupported
    /\ d.SupportedCipherSuites[2] = "An unknown cipher suite: 0x0b0b"

probeSuites ==
    <<TLS_RSA_WITH_AES_128_CBC_SHA, TLS_RSA_WITH_AES_256_CBC_SHA,
      TLS_RSA_WITH_AES_128_CBC_SHA256>>

\* C12 as stated: at a negotiated version of TLS 1.0 or less, when the client
\* offered any of the three RSA CBC suites the negotiated suite is the first of
\* the three, in the order 128_CBC_SHA, 256_CBC_SHA, 128_CBC_SHA256, that the
\* client offered, and the probe is armed; detection_possible is reported iff the
\* probe was armed; the probe is never armed above TLS 1.0.
C12_AsStated ==
    /\ (c.handshakeComplete /\ c.vers <= VersionTLS10
            /\ Range(offered) \cap Range(probeSuites) # {}) =>
          /\ c.ableToDetectNMinusOneSplitting
          /\ c.cipherSuite =
                probeSuites[Min({k \in DOMAIN probeSuites : probeSuites[k] \in Range(offered)})]
    /\ Reported =>
          (d.AbleToDetectNMinusOneSplitting = c.ableToDetectNMinusOneSplitting)
    /\ (c.handshakeComplete /\ c.vers > VersionTLS10) => ~c.ableToDetectNMinusOneSplitting

\* the positions of the offered list that hold an RSA CBC suite of TLS 1.0
ArmingPositions ==
    {i \in DOMAIN offered :
        offered[i] \in {TLS_RSA_WITH_AES_128_CBC_SHA, TLS_RSA_WITH_AES_256_CBC_SHA}}

\* C12, amended: the probe is armed exactly when the negotiated version is TLS
\* 1.0 or less, the server's certificate has an RSA key and the client offered
\* TLS_RSA_WITH_AES_128_CBC_SHA or TLS_RSA_WITH_AES_256_CBC_SHA; the negotiated
\* suite is then the first of these two in the order the client offered them;
\* TLS_RSA_WITH_AES_128_CBC_SHA256 never arms the probe; detection_possible is
\* reported iff the probe was armed; the probe is never armed above TLS 1.0.
C12_Arming ==
    /\ c.handshakeComplete =>
          /\ c.ableToDetectNMinusOneSplitting =
                (c.vers <= VersionTLS10 /\ certKind = "RSA" /\ ArmingPositions # {})
          /\ c.ableToDetectNMinusOneSplitting =>
                c.cipherSuite = offered[Min(ArmingPositions)]
    /\ Reported =>
          (d.AbleToDetectNMinusOneSplitting = c.ableToDetectNMinusOneSplitting)
    /\ (c.handshakeComplete /\ c.vers > VersionTLS10) => ~c.ableToDetectNMinusOneSplitting

\* a TLS 1.0 client that offered the 256-bit suite before the 128-bit one
\* negotiated the 256-bit suite with the probe armed, and is reported so
C12_Witness ==
    /\ Reported
    /\ c.vers = VersionTLS10
    /\ offered = <<TLS_RSA_WITH_AES_256_CBC_SHA, TLS_RSA_WITH_AES_128_CBC_SHA>>
    /\ c.cipherSuite = TLS_RSA_WITH_AES_256_CBC_SHA
    /\ c.ableToDetectNMinusOneSplitting
    /\ d.AbleToDetectNMinusOneSplitting

AppDataReceived == {i \in DOMAIN received : received[i].typ = "application_data"}

\* C13: on a connection with the probe armed the probe fires exactly once, on
\* the first received record of type application data, and sets
\* splitting_detected to whether that record's length is 0 or 1; alert and
\* handshake records and later application-data records never set or change it.
C13_ProbeFiring ==
    (c.handshakeComplete /\ c.ableToDetectNMinusOneSplitting) =>
        IF AppDataReceived = {}
           THEN ~c.readOneAppDataRecord /\ ~c.nMinusOneRecordSplittingDetected
           ELSE /\ c.readOneAppDataRecord
                /\ c.nMinusOneRecordSplittingDetected = (FirstAppDataLen \in {0, 1})

\* the callers whose call of ServerHandshake has returned
Handshaken == {i \in DOMAIN callers : callers[i].ret # "none"}

\* C14: whatever the interleaving of the Read and Write calls of one connection,
\* the handshake is run at most once, every other call gets
\* HandshakeAlreadyPerformedError and goes on to its I/O, or gets the handshake's
\* error and returns it, and conn.st is set at most once.
C14_HandshakeOnce ==
    /\ tlsConn.handshakes <= 1
    /\ conn_st.writes <= 1
    /\ Cardinality({i \in Handshaken : callers[i].ret = "st"}) <= 1
    /\ Handshaken # {} => tlsConn.handshakes = 1
    /\ \A i \in Handshaken :
          /\ callers[i].ret \in {"st", "HandshakeAlreadyPerformedError", "err"}
          /\ callers[i].ret = "HandshakeAlreadyPerformedError" =>
                (tlsConn.handshakeComplete /\ ~callers[i].err
                    /\ callers[i].pc \in {"io", "returned", "TLSData", "done", "panic"})
          /\ callers[i].ret = "err" =>
                (tlsConn.handshakeErr /\ callers[i].err /\ callers[i].pc = "failed")

\* a Read and a Write raced: one ran the handshake and stored its state, the
\* other got HandshakeAlreadyPerformedError, and both returned from their I/O
C14_Witness ==
    /\ DOMAIN callers = {1, 2}
    /\ callers[1].op = "Read" /\ callers[2].op = "Write"
    /\ callers[2].ret = "st" /\ callers[1].ret = "HandshakeAlreadyPerformedError"
    /\ callers[1].n = 1 /\ callers[2].n = 1
    /\ tlsConn.handshakes = 1
    /\ conn_st.writes = 1

\* the callers whose Read or Write has returned bytes and no error
IOReturned == {i \in DOMAIN callers : callers[i].pc \in {"returned", "TLSData", "done", "panic"}}

\* C15: whatever the interleaving of Read, Write and TLSData, when a Read or a
\* Write has returned successfully the handshake is complete and conn.st is
\* stored, and TLSData never reads a conn.st that is still nil.
C15_HandshakeBeforeIO ==
    /\ IOReturned # {} => (tlsConn.handshakeComplete /\ conn_st.val # "nil")
    /\ \A i \in DOMAIN callers :
          /\ callers[i].pc = "TLSData" => conn_st.val # "nil"
          /\ callers[i].pc # "panic"

\* the callers whose Read or Write returned the handshake's error
Failed == {i \in DOMAIN callers : callers[i].pc = "failed"}

\* C16 as stated: when the handshake driven by a Read or a Write fails, the
\* adapter closes the socket, returns the error with 0 bytes, does no
\* application-data I/O and leaves conn.st unset.
C16_AsStated ==
    Failed # {} =>
        /\ sock.closed
        /\ \A i \in Failed : callers[i].err /\ callers[i].n = 0
        /\ sock.io = 0
        /\ conn_st.val = "nil"

\* C16, amended: when the handshake driven by a Read or a Write fails, the
\* adapter returns the error with 0 bytes, does no application-data I/O and
\* leaves conn.st unset; the step in which the call fails leaves the socket as it
\* was, open until the caller closes it.
C16_HandshakeFailure ==
    [][/\ Failed' # {} =>
             /\ \A i \in Failed' : callers'[i].err /\ callers'[i].n = 0
             /\ sock'.io = 0
             /\ conn_st'.val = "nil"
       /\ Failed' # Failed => sock'.closed = sock.closed
       /\ (Failed = {} /\ Failed' # {}) => ~sock'.closed]_vars

\* a Read and a Write both returned the error of the one failed handshake with
\* the socket still open
C16_Witness ==
    /\ Failed = {1, 2}
    /\ callers[1].op = "Read" /\ callers[2].op = "Write"
    /\ tlsConn.handshakeErr /\ tlsConn.handshakes = 1
    /\ ~sock.closed
    /\ sock.io = 0

\* C17: a ClientHello of version TLS 1.0 or less never takes the resumption
\* path, whatever ticket it presents: the full handshake runs, with the probe
\* armed as for a client without a ticket; above TLS 1.0 the handshake is
\* resumed exactly when checkForResumption accepts the ticket.
C17_NoResumption ==
    c.handshakeComplete =>
        /\ hello.vers <= VersionTLS10 =>
              /\ ~c.didResume
              /\ c.ableToDetectNMinusOneSplitting =
                    (TLS_RSA_WITH_AES_128_CBC_SHA \in Range(offered))
        /\ hello.vers > VersionTLS10 =>
              /\ c.didResume = checkForResumption(hello, c.vers, certKind)
              /\ c.didResume => c.cipherSuite = hello.sessionTicket.cipherSuite

\* a TLS 1.0 client presented a ticket that checkForResumption accepts and went
\* through the full handshake, with the probe armed
C17_Witness ==
    /\ c.handshakeComplete
    /\ hello.vers = VersionTLS10
    /\ hello.sessionTicket = SessionState(VersionTLS10, \hC013)
    /\ checkForResumption(hello, c.vers, certKind)
    /\ ~c.didResume
    /\ c.ableToDetectNMinusOneSplitting
    /\ c.cipherSuite = TLS_RSA_WITH_AES_128_CBC_SHA

\* the ClientHello has been unmarshalled, or refused
Unmarshalled == pc # "unmarshal"

\* the ClientHello was refused by unmarshal: a fatal alert, no handshake
Refused == pc = "closed" /\ c.err /\ ~c.handshakeComplete /\ received = <<>>

\* C18: a body of extension 43 is refused, and the handshake fails, iff it is
\* empty, its first byte l is odd or its length is not l + 1; otherwise exactly
\* l / 2 versions are appended in order, each the big-endian value of two
\* consecutive bytes; without the extension the list is empty.
C18_SupportedVersions ==
    [][(pc = "unmarshal" /\ pc' # "unmarshal") =>
          IF ext = <<>>
             THEN ~Refused' /\ hello'.supportedVersions = <<>>
             ELSE LET b == ext[1]
                      malformed == Len(b) = 0 \/ b[1] % 2 = 1 \/ Len(b) # b[1] + 1
                  IN  /\ Refused' = malformed
                      /\ ~malformed =>
                            /\ Len(hello'.supportedVersions) = b[1] \div 2
                            /\ \A k \in 1..(b[1] \div 2) :
                                  hello'.supportedVersions[k] = 256 * b[2 * k] + b[2 * k + 1]]_vars

\* a ClientHello whose extension held the versions 0x0304 and 0x0303 was
\* unmarshalled, negotiated TLS 1.2 and is reported as TLS 1.3
C18_Witness ==
    /\ Reported
    /\ hello.supportedVersions = <<versionTLS13, VersionTLS12>>
    /\ c.vers = VersionTLS12
    /\ d.TLSVersion = "TLS 1.3"

\* the handlers that have passed incrementHijack and have not returned
InFlight ==
    {i \in DOMAIN handlers :
        handlers[i].pc \in {"running", "unwinding", "closed", "decrementLoaded"}}

\* every connection has left the listener and every handler has returned
AllReturned ==
    /\ handlers # <<>>
    /\ \A i \in DOMAIN handlers :
          handlers[i].pc \in {"acceptError", "refused", "returned"}

\* C19: under every interleaving liveHijackCount is the number of handlers that
\* have passed incrementHijack and not yet returned; it never goes below zero
\* and is 0 once all handlers have returned, whatever path each one took
\* (conversion failure, render error, dump error, success, panic).
C19_LiveHijackCount ==
    /\ liveHijackCount = Cardinality(InFlight)
    /\ liveHijackCount >= 0
    /\ AllReturned => liveHijackCount = 0

\* all handlers have returned, one of them by a panic, after two of them were
\* in flight at once, and the count is back to 0
C19_Witness ==
    /\ AllReturned
    /\ liveHijackCount = 0
    /\ \E i \in DOMAIN handlers : handlers[i].path = "panic"
    /\ \E i \in DOMAIN handlers : handlers[i].new = 2

\* the hijacked connections on which defer c.Close() has run
ClosedByHandler ==
    {i \in DOMAIN handlers :
        /\ handlers[i].hijacked
        /\ handlers[i].pc \in {"closed", "decrementLoaded", "returned"}}

\* the hijacked connections whose handler has returned
HijackedReturned ==
    {i \in DOMAIN handlers : handlers[i].hijacked /\ handlers[i].pc = "returned"}

LiveHijacked ==
    {i \in DOMAIN handlers : handlers[i].hijacked /\ handlers[i].pc # "returned"}

\* C21: after the signal both servers stop accepting, and main returns only
\* when no hijacked handler is live any more or the deadline has passed.
C21_GracefulShutdown ==
    /\ main.pc \in {"polling", "exited"} =>
          \A s \in DOMAIN srv : srv[s] = "shutdown"
    /\ main.pc = "exited" => (LiveHijacked = {} \/ main.expired)

\* pullClientInfo has been called and has returned or panicked
Classified == pc \in {"classified", "panic"}

\* a version code with a name
Recognised(v) == v \in actualSupportedVersionsKeys

\* the version the report is about has no name: the negotiated code is not
\* recognised and no recognised code of supported_versions is above it
NoVersionName ==
    /\ ~Recognised(c.vers)
    /\ \A i \in DOMAIN hello.supportedVersions :
          ~(Recognised(hello.supportedVersions[i]) /\ hello.supportedVersions[i] > c.vers)

\* the report represents the unknown suite codes and the unrecognised version
Represented ==
    /\ d.Rating \in {good, improvable, bad}
    /\ Len(d.SupportedCipherSuites) = Len(offered)
    /\ \A i \in DOMAIN offered :
          ~Named(offered[i]) =>
              /\ d.UnknownCipherSuiteSupported
              /\ d.SupportedCipherSuites[i] = UnknownPlaceholder[offered[i]]
    /\ IF NoVersionName
          THEN d.TLSVersion = "an unknown version of SSL/TLS" /\ d.TLSVersionFloat = 0
          ELSE d.TLSVersion \in Range(actualSupportedVersions) /\ d.TLSVersionFloat > 0

Classifies == pc = "established" /\ pc' = "responded"

\* C23: on a connection with the probe armed the probe has made its observation
\* (readOneAppDataRecord is true) when hijackHandle calls pullClientInfo; the
\* report copies that observation, and neither the observation nor the report
\* changes afterwards.
C23_ProbeBeforeClassify ==
    [][/\ (Classifies /\ c.ableToDetectNMinusOneSplitting) =>
             /\ c.readOneAppDataRecord
             /\ d'.AbleToDetectNMinusOneSplitting
             /\ d'.BEASTVuln = ~c.nMinusOneRecordSplittingDetected
       /\ c.readOneAppDataRecord =>
             /\ c'.readOneAppDataRecord
             /\ c'.nMinusOneRecordSplittingDetected = c.nMinusOneRecordSplittingDetected
       /\ Reported => d' = d]_vars

\* an armed connection whose first record had one byte: the observation was
\* made on it, the rest of the request was read after it, and the report says
\* the client is not vulnerable
C23_Witness ==
    /\ Reported
    /\ c.ableToDetectNMinusOneSplitting
    /\ c.readOneAppDataRecord
    /\ c.nMinusOneRecordSplittingDetected
    /\ received = <<AppData(1), AppData(ReqLen)>>
    /\ ~d.BEASTVuln
    /\ d.AbleToDetectNMinusOneSplitting

\* the two maps of reasons of the report
ReasonMaps == {d.WeakCipherSuites, d.BrokenCipherSuites}

\* C24: in every report every key of weak_cipher_suites and of
\* broken_cipher_suites is a name listed in supported_cipher_suites, every list
\* of reasons is non-empty, sweet32Reason is attached only to names of suites
\* tagged Sweet32, and the placeholder of an unknown suite is never a key.
C24_MapKeys ==
    pc = "responded" =>
        \A m \in ReasonMaps : \A name \in DOMAIN m :
            /\ name \in Range(d.SupportedCipherSuites)
            /\ Len(m[name]) > 0
            /\ sweet32Reason \in Range(m[name]) => name \in sweet32CipherSuites
            /\ \A i \in DOMAIN offered :
                  ~Named(offered[i]) => name # d.SupportedCipherSuites[i]

\* a report of a 3DES suite, a modern suite and an unknown code: the 3DES name
\* is a key of both maps, with sweet32Reason, and the placeholder is listed
C24_Witness ==
    /\ pc = "responded"
    /\ offered = <<\h000A, \hC02F, \hFAFA>>
    /\ d.SupportedCipherSuites[3] = "An unknown cipher suite: 0xfafa"
    /\ d.BrokenCipherSuites["TLS_RSA_WITH_3DES_EDE_CBC_SHA"] = <<sweet32Reason>>
    /\ "TLS_RSA_WITH_3DES_EDE_CBC_SHA" \in DOMAIN d.WeakCipherSuites
    /\ DOMAIN d.BrokenCipherSuites = {"TLS_RSA_WITH_3DES_EDE_CBC_SHA"}

\* C25: in every report beast_vuln or able_to_detect_n_minus_one_splitting
\* being true implies that the negotiated version, not the one upgraded through
\* supported_versions, is at most TLS 1.0 and that a suite of the CBC set was
\* offered; without a CBC suite or above TLS 1.0 both flags are false whatever
\* the probe observed.
C25_BeastFlags ==
    pc = "responded" =>
        /\ (d.BEASTVuln \/ d.AbleToDetectNMinusOneSplitting) =>
              (c.vers <= VersionTLS10 /\ OffersCBC)
        /\ (~OffersCBC \/ c.vers > VersionTLS10) =>
              (~d.BEASTVuln /\ ~d.AbleToDetectNMinusOneSplitting)

\* a TLS 1.0 connection of a client that lists TLS 1.3 in supported_versions
\* and offers a CBC suite: reported as TLS 1.3, the probe armed, its flags set
C25_Witness ==
    /\ pc = "responded"
    /\ c.vers = VersionTLS10
    /\ hello.supportedVersions = <<versionTLS13>>
    /\ d.TLSVersion = "TLS 1.3"
    /\ offered = <<\h002F>>
    /\ d.AbleToDetectNMinusOneSplitting
    /\ d.BEASTVuln
====
